---------------------------- MODULE Spec2Model ----------------------------
(***************************************************************************)
(* A model of the tinyml front end: Lexer::tokenize (src/src/lexer.rs) and *)
(* Parser::parse (src/src/parser.rs).                                      *)
(*                                                                         *)
(* A source text is a sequence of bytes.  A character of n bytes is its    *)
(* own name followed by n-1 continuation bytes (Cont), so a byte index is  *)
(* on a character boundary exactly when the byte there is not Cont.        *)
(* Text carried by tokens and AST nodes is a sequence of characters.       *)
(***************************************************************************)
EXTENDS Integers, Sequences, FiniteSets, TLC

VARIABLES
    source,     \* Lexer.source, as bytes
    cur_idx,    \* Lexer.cur_idx, a byte index (0-based)
    start_idx,  \* Lexer.start_idx
    pos_line,   \* Lexer.pos_line
    pos_col,    \* Lexer.pos_col
    tokens,     \* the local `tokens` of tokenize, then its return value
    tok_start,  \* history: start_idx when each token of `tokens` was pushed
    pc,         \* where the program is: "scan", "panic", "lexed",
                \*   "parsing", "parsed"
    ptokens,    \* Parser.tokens
    pos,        \* Parser.pos
    decls,      \* the local `decls` of Parser::parse
    result,     \* the value Parser::parse returned
    earlier,    \* history: what the earlier calls of parse on this Parser
                \*   returned, oldest first
    written     \* history: the expression the tokens were written from,
                \*   when they were written from one

vars == <<source, cur_idx, start_idx, pos_line, pos_col, tokens, tok_start,
          pc, ptokens, pos, decls, result, earlier, written>>

lexvars == <<source, cur_idx, start_idx, pos_line, pos_col, tokens, tok_start>>

(***************************************************************************)
(* Bounds of the model.                                                    *)
(***************************************************************************)
\* Every source text of at most MaxLen characters over Alphabet is lexed.
MaxLen == 3

(***************************************************************************)
(* Characters.                                                             *)
(***************************************************************************)
Cont == "<cont>"        \* a UTF-8 continuation byte
NL == "\n"
TAB == "\t"
EAcute == "U+00E9"      \* a letter of two bytes
Nbsp == "U+00A0"        \* a white space character of two bytes
Euro == "U+20AC"        \* a symbol of three bytes

AsciiLetters ==
    {"a", "b", "c", "d", "e", "f", "g", "h", "i", "j", "k", "l", "m", "n",
     "o", "p", "q", "r", "s", "t", "u", "v", "w", "x", "y", "z", "C"}
AsciiDigits == {"0", "1", "2", "3", "4", "5", "6", "7", "8", "9"}
AsciiSymbols ==
    {"_", ".", "#", "'", "(", ")", "=", ",", "|", ":", "+", "-", "*", "/",
     "<", ">", ";", "[", "]"}
AsciiSpaces == {" ", NL, TAB}
AsciiChars == AsciiLetters \cup AsciiDigits \cup AsciiSymbols \cup AsciiSpaces

\* char::len_utf8
Utf8Len(c) == IF c \in AsciiChars THEN 1 ELSE IF c = Euro THEN 3 ELSE 2

is_whitespace(c) == c \in AsciiSpaces \cup {Nbsp}
is_alphabetic(c) == c \in AsciiLetters \cup {EAcute}
is_digit(c) == c \in AsciiDigits
is_alphanumeric(c) == is_alphabetic(c) \/ c \in AsciiDigits

\* The bytes of a text: String's UTF-8 encoding.
RECURSIVE Encode(_)
Encode(s) ==
    IF s = <<>> THEN <<>>
    ELSE <<Head(s)>> \o [i \in 1..(Utf8Len(Head(s)) - 1) |-> Cont]
         \o Encode(Tail(s))

\* str::is_char_boundary
is_char_boundary(src, i) ==
    \/ i = 0
    \/ i = Len(src)
    \/ i < Len(src) /\ src[i + 1] # Cont

\* The characters of src[i..], as str::chars yields them.
CharsFrom(src, i) ==
    SelectSeq(SubSeq(src, i + 1, Len(src)), LAMBDA b : b # Cont)

(***************************************************************************)
(* Token types (TokenType).  A type is a record with its variant's name,   *)
(* and the text of the variants that carry one.                            *)
(***************************************************************************)
T(k) == [k |-> k]
TS(k, s) == [k |-> k, s |-> s]
NoToken == [k |-> "<none>"]     \* Option::None of a token type

\* TokenDict::new: the lexemes of every variant but Id, Integer, Bool,
\* Float, Error and EOF, under the variant's Display string, then "true"
\* and "false".  Comment has no strum string: it displays as its name.
TokenDictMap ==
    { [key |-> <<"l", "e", "t">>, ty |-> T("Let")],
      [key |-> <<"f", "u", "n">>, ty |-> T("Fun")],
      [key |-> <<"i", "n">>, ty |-> T("In")],
      [key |-> <<"e", "n", "d">>, ty |-> T("End")],
      [key |-> <<"c", "a", "s", "e">>, ty |-> T("Case")],
      [key |-> <<"o", "f">>, ty |-> T("Of")],
      [key |-> <<"v", "a", "l">>, ty |-> T("Val")],
      [key |-> <<"t", "y", "p", "e">>, ty |-> T("Type")],
      [key |-> <<"n", "i", "l">>, ty |-> T("Nil")],
      [key |-> <<"n", "o", "n", "e">>, ty |-> T("None")],
      [key |-> <<"s", "o", "m", "e">>, ty |-> T("Some")],
      [key |-> <<"i", "n", "t">>, ty |-> T("TypeInt")],
      [key |-> <<"b", "o", "o", "l">>, ty |-> T("TypeBool")],
      [key |-> <<"'", "a">>, ty |-> T("TypeAlpha")],
      [key |-> <<"i", "f">>, ty |-> T("If")],
      [key |-> <<"t", "h", "e", "n">>, ty |-> T("Then")],
      [key |-> <<"e", "l", "s", "e">>, ty |-> T("Else")],
      [key |-> <<"C", "o", "m", "m", "e", "n", "t">>, ty |-> T("Comment")],
      [key |-> <<"(", "*">>, ty |-> T("OpenComment")],
      [key |-> <<"*", ")">>, ty |-> T("CloseComment")],
      [key |-> <<"-", ">">>, ty |-> T("Arrow")],
      [key |-> <<"(">>, ty |-> T("LeftParen")],
      [key |-> <<")">>, ty |-> T("RightParen")],
      [key |-> <<"=">>, ty |-> T("Equal")],
      [key |-> <<"=", ">">>, ty |-> T("FatArrow")],
      [key |-> <<",">>, ty |-> T("Comma")],
      [key |-> <<"|">>, ty |-> T("Bar")],
      [key |-> <<":", ":">>, ty |-> T("Cons")],
      [key |-> <<":">>, ty |-> T("Colon")],
      [key |-> <<"_">>, ty |-> T("Wildcard")],
      [key |-> <<"+">>, ty |-> T("Plus")],
      [key |-> <<"-">>, ty |-> T("Minus")],
      [key |-> <<"*">>, ty |-> T("Multiply")],
      [key |-> <<"/">>, ty |-> T("Divide")],
      [key |-> <<"<">>, ty |-> T("StrictLess")],
      [key |-> <<"<", "=">>, ty |-> T("Less")],
      [key |-> <<">">>, ty |-> T("StrictGreater")],
      [key |-> <<">", "=">>, ty |-> T("Greater")],
      [key |-> <<"t", "r", "u", "e">>, ty |-> TS("Bool", <<"t", "r", "u", "e">>)],
      [key |-> <<"f", "a", "l", "s", "e">>,
       ty |-> TS("Bool", <<"f", "a", "l", "s", "e">>)] }

\* token_dict.map.get(key): the type, or NoToken
DictGet(key) ==
    IF \E e \in TokenDictMap : e.key = key
    THEN (CHOOSE e \in TokenDictMap : e.key = key).ty
    ELSE NoToken

(***************************************************************************)
(* The three matchers.  Each returns (Option<TokenType>, usize) as         *)
(* [ty, len]; len counts characters, as the code's `len += 1` per char.    *)
(***************************************************************************)
\* The longest prefix of cs whose characters are alphanumeric or '_'.
RECURSIVE WordPrefix(_)
WordPrefix(cs) ==
    IF cs # <<>> /\ (is_alphanumeric(Head(cs)) \/ Head(cs) = "_")
    THEN <<Head(cs)>> \o WordPrefix(Tail(cs))
    ELSE <<>>

match_id_or_kw(cs) ==
    LET id_or_kw == WordPrefix(cs)
        found == DictGet(id_or_kw)
    IN  IF found # NoToken
        THEN [ty |-> found, len |-> Len(id_or_kw)]
        ELSE [ty |-> TS("Id", id_or_kw), len |-> Len(id_or_kw)]

\* The loop of match_number: the text collected from cs, given the text so
\* far and is_float.
RECURSIVE NumberScan(_, _, _)
NumberScan(cs, number, is_float) ==
    IF cs = <<>> THEN [number |-> number, is_float |-> is_float]
    ELSE LET c == Head(cs) IN
         IF is_digit(c)
         THEN NumberScan(Tail(cs), Append(number, c), is_float)
         ELSE IF c = "." /\ ~is_float
         THEN NumberScan(Tail(cs), Append(number, c), TRUE)
         ELSE IF is_float /\ is_digit(c)
         THEN NumberScan(Tail(cs), Append(number, c), is_float)
         ELSE [number |-> number, is_float |-> is_float]

match_number(cs) ==
    LET r == NumberScan(cs, <<>>, FALSE) IN
    IF r.number = <<>> THEN [ty |-> NoToken, len |-> 0]
    ELSE IF r.is_float
    THEN [ty |-> TS("Float", r.number), len |-> Len(r.number)]
    ELSE [ty |-> TS("Integer", r.number), len |-> Len(r.number)]

match_syntax(cs) ==
    IF Len(cs) >= 2 /\ DictGet(<<cs[1], cs[2]>>) # NoToken
    THEN [ty |-> DictGet(<<cs[1], cs[2]>>), len |-> 2]
    ELSE IF Len(cs) >= 1 /\ DictGet(<<cs[1]>>) # NoToken
    THEN [ty |-> DictGet(<<cs[1]>>), len |-> 1]
    ELSE [ty |-> NoToken, len |-> 0]

\* The dispatch of tokenize on the first character of `remaining`.
match_token(cs) ==
    IF is_alphabetic(Head(cs)) \/ Head(cs) = "_" THEN match_id_or_kw(cs)
    ELSE IF is_digit(Head(cs)) THEN match_number(cs)
    ELSE match_syntax(cs)

\* Token { line, col, len, ty, next: None }
Token(line, col, len, ty) == [line |-> line, col |-> col, len |-> len, ty |-> ty]

(***************************************************************************)
(* The AST (src/src/ast.rs, and the Literal node parser.rs builds).        *)
(* Option::None of a type annotation is NoType; Some(t) is t.              *)
(***************************************************************************)
Program(ds) == [t |-> "Program", decls |-> ds]
ValDecl(pat, typ, exp) == [t |-> "ValDecl", pat |-> pat, typ |-> typ, exp |-> exp]
FunDecl(name, clauses, typ) ==
    [t |-> "FunDecl", name |-> name, clauses |-> clauses, typ |-> typ]
If(cond, then, else_) == [t |-> "If", cond |-> cond, then |-> then, else_ |-> else_]
Let(decl, body) == [t |-> "Let", decl |-> decl, body |-> body]
Fn(clauses) == [t |-> "Fn", clauses |-> clauses]
BinOp(left, op, right) == [t |-> "BinOp", left |-> left, op |-> op, right |-> right]
App(func, arg) == [t |-> "App", func |-> func, arg |-> arg]
Id(name) == [t |-> "Id", name |-> name]
Tuple(items) == [t |-> "Tuple", items |-> items]
List(items) == [t |-> "List", items |-> items]
Literal(kind, text) == [t |-> "Literal", value |-> [t |-> kind, s |-> text]]

PatLiteral == [t |-> "PatLiteral"]
PatId(name) == [t |-> "PatId", name |-> name]
PatWildcard == [t |-> "PatWildcard"]
PatVar(name) == [t |-> "PatVar", name |-> name]
PatPair(a, b) == [t |-> "PatPair", fst |-> a, snd |-> b]

NoType == [t |-> "None"]
TyInt == [t |-> "Int"]
TyBool == [t |-> "Bool"]
TyChar == [t |-> "Char"]
TyString == [t |-> "String"]
TyVar(name) == [t |-> "Var", name |-> name]
TyArrow(a, b) == [t |-> "Arrow", dom |-> a, cod |-> b]
TyProduct(a, b) == [t |-> "Product", left |-> a, right |-> b]

(***************************************************************************)
(* The parser.  A parsing function of the code reads and advances          *)
(* self.pos and returns Result<_, ParseError>; here it takes the tokens    *)
(* and self.pos at entry and returns the Result with self.pos at return:   *)
(*   [ok |-> TRUE,  v |-> value, pos |-> self.pos]                         *)
(*   [ok |-> FALSE, err |-> [kind, msg, pos], pos |-> self.pos]            *)
(* A message is the text of its format string, with the token it reports   *)
(* in `got`.                                                               *)
(***************************************************************************)
Ok(v, p) == [ok |-> TRUE, v |-> v, pos |-> p]
\* parse_error!(kind, msg, at), returned with self.pos = p
Err(kind, msg, got, at, p) ==
    [ok |-> FALSE, err |-> [kind |-> kind, msg |-> msg, got |-> got, pos |-> at],
     pos |-> p]

peek(toks, p) == IF p < Len(toks) THEN toks[p + 1].ty ELSE NoToken

\* consume, had it dropped the token after the one it returns.
consume_SkipsTwo(toks, p) == IF p < Len(toks) THEN p + 2 ELSE p

\* self.pos after consume()
consume(toks, p) == IF p < Len(toks) THEN p + 1 ELSE p

\* expect, had it taken an Error token for the token it expects.
expect_ErrorAccepted(toks, p, expected) ==
    IF p < Len(toks)
    THEN IF toks[p + 1].ty = expected \/ toks[p + 1].ty = T("Error")
         THEN Ok(<<>>, consume(toks, p))
         ELSE Err("UnexpectedToken", "Expected '{:?}', got '{:?}'",
                  toks[p + 1].ty, p, consume(toks, p))
    ELSE Err("UnexpectedToken", "Expected '{:?}', got EOF", NoToken, p,
             consume(toks, p))

expect(toks, p, expected) ==
    IF p < Len(toks)
    THEN IF toks[p + 1].ty = expected
         THEN Ok(<<>>, consume(toks, p))
         ELSE Err("UnexpectedToken", "Expected '{:?}', got '{:?}'",
                  toks[p + 1].ty, p, consume(toks, p))
    ELSE Err("UnexpectedToken", "Expected '{:?}', got EOF", NoToken, p,
             consume(toks, p))

could_start_atom(toks, p) ==
    peek(toks, p).k \in {"Integer", "Bool", "String", "Id", "LeftParen", "LeftBracket"}

\* comp_op, had `<>` been given a tag of its own.
comp_op_NotEqualAsNeq(ty) ==
    CASE ty.k = "Less" -> "Lt"
      [] ty.k = "StrictLess" -> "Lte"
      [] ty.k = "Greater" -> "Gt"
      [] ty.k = "StrictGreater" -> "Gte"
      [] ty.k = "CompEqual" -> "Eq"
      [] ty.k = "CompNotEqual" -> "Neq"
      [] OTHER -> "<none>"

\* The operator tag parse_comp_expr gives a token type, or "<none>".
comp_op(ty) ==
    CASE ty.k = "Less" -> "Lt"
      [] ty.k = "StrictLess" -> "Lte"
      [] ty.k = "Greater" -> "Gt"
      [] ty.k = "StrictGreater" -> "Gte"
      [] ty.k = "CompEqual" -> "Eq"
      [] ty.k = "CompNotEqual" -> "Eq"
      [] OTHER -> "<none>"

\* The parsing functions call one another, and themselves, through `call`:
\* self_f(toks, p) is the code's self.f() with self.pos = p.
RECURSIVE call(_, _, _, _)
self_parse_type(toks, p) == call("parse_type", toks, p, <<>>)
self_parse_type_prefix(toks, p) == call("parse_type_prefix", toks, p, <<>>)
self_parse_atom(toks, p) == call("parse_atom", toks, p, <<>>)
self_parse_app_expr(toks, p) == call("parse_app_expr", toks, p, <<>>)
self_parse_mul_expr(toks, p) == call("parse_mul_expr", toks, p, <<>>)
self_parse_add_expr(toks, p) == call("parse_add_expr", toks, p, <<>>)
self_parse_comp_expr(toks, p) == call("parse_comp_expr", toks, p, <<>>)
self_parse_match(toks, p) == call("parse_match", toks, p, <<>>)
self_parse_expr(toks, p) == call("parse_expr", toks, p, <<>>)
self_parse_decl(toks, p) == call("parse_decl", toks, p, <<>>)
self_parse_pattern(toks, p) == call("parse_pattern", toks, p, <<>>)
self_comma_exprs(toks, p, acc) == call("comma_exprs", toks, p, acc)
self_app_loop(toks, p, acc) == call("app_loop", toks, p, acc)
self_mul_loop(toks, p, acc) == call("mul_loop", toks, p, acc)
self_add_loop(toks, p, acc) == call("add_loop", toks, p, acc)
self_comp_loop(toks, p, acc) == call("comp_loop", toks, p, acc)
self_match_loop(toks, p, acc) == call("match_loop", toks, p, acc)
self_decls_loop(toks, p, acc) == call("decls_loop", toks, p, acc)
self_match_arm(toks, p, acc) == call("match_arm", toks, p, acc)

\* The first match of parse_type: the base type.
parse_type_prefix(toks, p) ==
    LET tk == peek(toks, p) IN
    CASE tk.k = "TypeInt" -> Ok(TyInt, consume(toks, p))
      [] tk.k = "TypeBool" -> Ok(TyBool, consume(toks, p))
      [] tk.k = "TypeChar" -> Ok(TyChar, consume(toks, p))
      [] tk.k = "TypeString" -> Ok(TyString, consume(toks, p))
      [] tk.k = "SingleQuote" ->
            LET p1 == consume(toks, p)
                t1 == peek(toks, p1)
            IN  IF t1.k = "Id" THEN Ok(TyVar(t1.s), consume(toks, p1))
                ELSE IF t1 # NoToken
                THEN Err("UnexpectedToken",
                         "Expected identifier for type name, recieved: {token}",
                         t1, p, p1)
                ELSE Err("UnexpectedToken", "Unexpected EOF", NoToken, p, p1)
      [] tk.k = "LeftParen" ->
            LET type1 == self_parse_type(toks, consume(toks, p)) IN
            IF ~type1.ok THEN type1 ELSE
            LET c == expect(toks, type1.pos, T("Comma")) IN
            IF ~c.ok THEN c ELSE
            LET type2 == self_parse_type(toks, c.pos) IN
            IF ~type2.ok THEN type2 ELSE
            LET r == expect(toks, type2.pos, T("RightParen")) IN
            IF ~r.ok THEN r ELSE Ok(TyProduct(type1.v, type2.v), r.pos)
      [] tk # NoToken /\ tk.k \notin {"TypeInt", "TypeBool", "TypeChar",
                                      "TypeString", "SingleQuote", "LeftParen"} ->
            Err("UnexpectedToken", "Expected a type, got {:?}", tk, p, p)
      [] OTHER -> Err("UnexpectedToken", "Expected a type, got EOF", NoToken, p, p)

\* parse_type, had the type after a suffix been a base type alone.
parse_type_SuffixBase(toks, p) ==
    LET prefix == self_parse_type_prefix(toks, p) IN
    IF ~prefix.ok THEN prefix ELSE
    LET tk == peek(toks, prefix.pos) IN
    IF tk.k = "Arrow"
    THEN LET return_type == self_parse_type_prefix(toks, consume(toks, prefix.pos)) IN
         IF ~return_type.ok THEN return_type
         ELSE Ok(TyArrow(prefix.v, return_type.v), return_type.pos)
    ELSE IF tk.k = "Multiply"
    THEN LET second_type == self_parse_type_prefix(toks, consume(toks, prefix.pos)) IN
         IF ~second_type.ok THEN second_type
         ELSE Ok(TyProduct(prefix.v, second_type.v), second_type.pos)
    ELSE prefix

parse_type(toks, p) ==
    LET prefix == self_parse_type_prefix(toks, p) IN
    IF ~prefix.ok THEN prefix ELSE
    LET tk == peek(toks, prefix.pos) IN
    IF tk.k = "Arrow"
    THEN LET return_type == self_parse_type(toks, consume(toks, prefix.pos)) IN
         IF ~return_type.ok THEN return_type
         ELSE Ok(TyArrow(prefix.v, return_type.v), return_type.pos)
    ELSE IF tk.k = "Multiply"
    THEN LET second_type == self_parse_type(toks, consume(toks, prefix.pos)) IN
         IF ~second_type.ok THEN second_type
         ELSE Ok(TyProduct(prefix.v, second_type.v), second_type.pos)
    ELSE prefix

\* `while let Some(Comma) = self.peek() { consume; items.push(self_parse_expr()?) }`
comma_exprs(toks, p, items) ==
    IF peek(toks, p).k = "Comma"
    THEN LET e == self_parse_expr(toks, consume(toks, p)) IN
         IF ~e.ok THEN e ELSE self_comma_exprs(toks, e.pos, Append(items, e.v))
    ELSE Ok(items, p)

\* parse_atom, had one expression in parentheses been made a tuple of one.
parse_atom_OneTuple(toks, p) ==
    LET tk == peek(toks, p) IN
    CASE tk.k = "Integer" -> Ok(Literal("Integer", tk.s), consume(toks, p))
      [] tk.k = "Bool" -> Ok(Literal("Boolean", tk.s), consume(toks, p))
      [] tk.k = "String" -> Ok(Literal("String", tk.s), consume(toks, p))
      [] tk.k = "Id" -> Ok(Id(tk.s), consume(toks, p))
      [] tk.k = "LeftParen" ->
            LET p1 == consume(toks, p) IN
            IF peek(toks, p1).k = "RightParen"
            THEN Ok(Tuple(<<>>), consume(toks, p1))
            ELSE
            LET expr == self_parse_expr(toks, p1) IN
            IF ~expr.ok THEN expr ELSE
            IF peek(toks, expr.pos).k = "Comma"
            THEN LET second == self_parse_expr(toks, consume(toks, expr.pos)) IN
                 IF ~second.ok THEN second ELSE
                 LET rest == self_comma_exprs(toks, second.pos, <<expr.v, second.v>>) IN
                 IF ~rest.ok THEN rest ELSE
                 LET r == expect(toks, rest.pos, T("RightParen")) IN
                 IF ~r.ok THEN r ELSE Ok(Tuple(rest.v), r.pos)
            ELSE LET r == expect(toks, expr.pos, T("RightParen")) IN
                 IF ~r.ok THEN r ELSE Ok(Tuple(<<expr.v>>), r.pos)
      [] tk.k = "LeftBracket" ->
            LET p1 == consume(toks, p) IN
            IF peek(toks, p1).k = "RightBracket"
            THEN Ok(List(<<>>), consume(toks, p1))
            ELSE
            LET first == self_parse_expr(toks, p1) IN
            IF ~first.ok THEN first ELSE
            LET rest == self_comma_exprs(toks, first.pos, <<first.v>>) IN
            IF ~rest.ok THEN rest ELSE
            LET r == expect(toks, rest.pos, T("RightBracket")) IN
            IF ~r.ok THEN r ELSE Ok(List(rest.v), r.pos)
      [] tk # NoToken /\ tk.k \notin {"Integer", "Bool", "String", "Id",
                                      "LeftParen", "LeftBracket"} ->
            Err("UnexpectedToken", "Expected an atom, got {:?}", tk, p, p)
      [] OTHER -> Err("UnexpectedToken", "Expected an atom, got EOF", NoToken, p, p)

parse_atom(toks, p) ==
    LET tk == peek(toks, p) IN
    CASE tk.k = "Integer" -> Ok(Literal("Integer", tk.s), consume(toks, p))
      [] tk.k = "Bool" -> Ok(Literal("Boolean", tk.s), consume(toks, p))
      [] tk.k = "String" -> Ok(Literal("String", tk.s), consume(toks, p))
      [] tk.k = "Id" -> Ok(Id(tk.s), consume(toks, p))
      [] tk.k = "LeftParen" ->
            LET p1 == consume(toks, p) IN
            IF peek(toks, p1).k = "RightParen"
            THEN Ok(Tuple(<<>>), consume(toks, p1))
            ELSE
            LET expr == self_parse_expr(toks, p1) IN
            IF ~expr.ok THEN expr ELSE
            IF peek(toks, expr.pos).k = "Comma"
            THEN LET second == self_parse_expr(toks, consume(toks, expr.pos)) IN
                 IF ~second.ok THEN second ELSE
                 LET rest == self_comma_exprs(toks, second.pos, <<expr.v, second.v>>) IN
                 IF ~rest.ok THEN rest ELSE
                 LET r == expect(toks, rest.pos, T("RightParen")) IN
                 IF ~r.ok THEN r ELSE Ok(Tuple(rest.v), r.pos)
            ELSE LET r == expect(toks, expr.pos, T("RightParen")) IN
                 IF ~r.ok THEN r ELSE Ok(expr.v, r.pos)
      [] tk.k = "LeftBracket" ->
            LET p1 == consume(toks, p) IN
            IF peek(toks, p1).k = "RightBracket"
            THEN Ok(List(<<>>), consume(toks, p1))
            ELSE
            LET first == self_parse_expr(toks, p1) IN
            IF ~first.ok THEN first ELSE
            LET rest == self_comma_exprs(toks, first.pos, <<first.v>>) IN
            IF ~rest.ok THEN rest ELSE
            LET r == expect(toks, rest.pos, T("RightBracket")) IN
            IF ~r.ok THEN r ELSE Ok(List(rest.v), r.pos)
      [] tk # NoToken /\ tk.k \notin {"Integer", "Bool", "String", "Id",
                                      "LeftParen", "LeftBracket"} ->
            Err("UnexpectedToken", "Expected an atom, got {:?}", tk, p, p)
      [] OTHER -> Err("UnexpectedToken", "Expected an atom, got EOF", NoToken, p, p)

\* app_loop, had the argument taken the applications that follow it.
app_loop_RightNested(toks, p, expr) ==
    IF could_start_atom(toks, p)
    THEN LET arg == self_parse_app_expr(toks, p) IN
         IF ~arg.ok THEN arg ELSE Ok(App(expr, arg.v), arg.pos)
    ELSE Ok(expr, p)

\* `while self.could_start_atom() { ... }`
app_loop(toks, p, expr) ==
    IF could_start_atom(toks, p)
    THEN LET atom == self_parse_atom(toks, p) IN
         IF ~atom.ok THEN atom ELSE self_app_loop(toks, atom.pos, App(expr, atom.v))
    ELSE Ok(expr, p)

parse_app_expr(toks, p) ==
    LET expr == self_parse_atom(toks, p) IN
    IF ~expr.ok THEN expr ELSE self_app_loop(toks, expr.pos, expr.v)

\* mul_loop, had its right operand been a sum.
mul_loop_OperandSum(toks, p, left) ==
    LET tk == peek(toks, p) IN
    IF tk.k = "Multiply"
    THEN LET right == self_parse_add_expr(toks, consume(toks, p)) IN
         IF ~right.ok THEN right
         ELSE self_mul_loop(toks, right.pos, BinOp(left, "Mul", right.v))
    ELSE IF tk.k = "Divide"
    THEN LET right == self_parse_add_expr(toks, consume(toks, p)) IN
         IF ~right.ok THEN right
         ELSE self_mul_loop(toks, right.pos, BinOp(left, "Div", right.v))
    ELSE Ok(left, p)

\* The loop of parse_mul_expr.
mul_loop(toks, p, left) ==
    LET tk == peek(toks, p) IN
    IF tk.k = "Multiply"
    THEN LET right == self_parse_app_expr(toks, consume(toks, p)) IN
         IF ~right.ok THEN right
         ELSE self_mul_loop(toks, right.pos, BinOp(left, "Mul", right.v))
    ELSE IF tk.k = "Divide"
    THEN LET right == self_parse_app_expr(toks, consume(toks, p)) IN
         IF ~right.ok THEN right
         ELSE self_mul_loop(toks, right.pos, BinOp(left, "Div", right.v))
    ELSE Ok(left, p)

parse_mul_expr(toks, p) ==
    LET left == self_parse_app_expr(toks, p) IN
    IF ~left.ok THEN left ELSE self_mul_loop(toks, left.pos, left.v)

\* add_loop, had '+' been given the tag of '-'.
add_loop_PlusAsSub(toks, p, left) ==
    LET tk == peek(toks, p) IN
    IF tk.k \in {"Plus", "Minus"}
    THEN LET right == self_parse_mul_expr(toks, consume(toks, p)) IN
         IF ~right.ok THEN right
         ELSE self_add_loop(toks, right.pos, BinOp(left, "Sub", right.v))
    ELSE Ok(left, p)

\* The loop of parse_add_expr.
add_loop(toks, p, left) ==
    LET tk == peek(toks, p) IN
    IF tk.k = "Plus"
    THEN LET right == self_parse_mul_expr(toks, consume(toks, p)) IN
         IF ~right.ok THEN right
         ELSE self_add_loop(toks, right.pos, BinOp(left, "Add", right.v))
    ELSE IF tk.k = "Minus"
    THEN LET right == self_parse_mul_expr(toks, consume(toks, p)) IN
         IF ~right.ok THEN right
         ELSE self_add_loop(toks, right.pos, BinOp(left, "Sub", right.v))
    ELSE Ok(left, p)

parse_add_expr(toks, p) ==
    LET left == self_parse_mul_expr(toks, p) IN
    IF ~left.ok THEN left ELSE self_add_loop(toks, left.pos, left.v)

\* The loop of parse_comp_expr.
comp_loop(toks, p, left) ==
    LET op == comp_op(peek(toks, p)) IN
    IF op # "<none>"
    THEN LET right == self_parse_add_expr(toks, consume(toks, p)) IN
         IF ~right.ok THEN right
         ELSE self_comp_loop(toks, right.pos, BinOp(left, op, right.v))
    ELSE Ok(left, p)

parse_comp_expr(toks, p) ==
    LET left == self_parse_add_expr(toks, p) IN
    IF ~left.ok THEN left ELSE self_comp_loop(toks, left.pos, left.v)

\* One arm: Pattern '=>' Expr, appended to arms.
match_arm(toks, p, arms) ==
    LET pattern == self_parse_pattern(toks, p) IN
    IF ~pattern.ok THEN pattern ELSE
    LET a == expect(toks, pattern.pos, T("FatArrow")) IN
    IF ~a.ok THEN a ELSE
    LET expr == self_parse_expr(toks, a.pos) IN
    IF ~expr.ok THEN expr ELSE Ok(Append(arms, <<pattern.v, expr.v>>), expr.pos)

\* `while let Some(Bar) = self.peek() { ... }`
match_loop(toks, p, arms) ==
    IF peek(toks, p).k = "Bar"
    THEN LET arm == self_match_arm(toks, consume(toks, p), arms) IN
         IF ~arm.ok THEN arm ELSE self_match_loop(toks, arm.pos, arm.v)
    ELSE Ok(arms, p)

parse_match(toks, p) ==
    LET first == self_match_arm(toks, p, <<>>) IN
    IF ~first.ok THEN first ELSE
    LET arms == self_match_loop(toks, first.pos, first.v) IN
    IF ~arms.ok THEN arms ELSE
    IF arms.v = <<>>
    THEN Err("UnexpectedToken", "Match expression must have at least one arm",
             NoToken, p, arms.pos)
    ELSE arms

\* parse_expr, had it built If with its branches in the other order.
parse_expr_BranchesSwapped(toks, p) ==
    LET tk == peek(toks, p) IN
    CASE tk.k = "If" ->
            LET cond == self_parse_expr(toks, consume(toks, p)) IN
            IF ~cond.ok THEN cond ELSE
            LET t == expect(toks, cond.pos, T("Then")) IN
            IF ~t.ok THEN t ELSE
            LET then_expr == self_parse_expr(toks, t.pos) IN
            IF ~then_expr.ok THEN then_expr ELSE
            LET e == expect(toks, then_expr.pos, T("Else")) IN
            IF ~e.ok THEN e ELSE
            LET else_expr == self_parse_expr(toks, e.pos) IN
            IF ~else_expr.ok THEN else_expr
            ELSE Ok(If(cond.v, else_expr.v, then_expr.v), else_expr.pos)
      [] tk.k = "Let" ->
            LET decl == self_parse_decl(toks, consume(toks, p)) IN
            IF ~decl.ok THEN decl ELSE
            LET i == expect(toks, decl.pos, T("In")) IN
            IF ~i.ok THEN i ELSE
            LET body == self_parse_expr(toks, i.pos) IN
            IF ~body.ok THEN body ELSE
            LET e == expect(toks, body.pos, T("End")) IN
            IF ~e.ok THEN e ELSE Ok(Let(decl.v, body.v), e.pos)
      [] tk.k = "Fun" ->
            LET clauses == self_parse_match(toks, consume(toks, p)) IN
            IF ~clauses.ok THEN clauses ELSE Ok(Fn(clauses.v), clauses.pos)
      [] tk # NoToken /\ tk.k \notin {"If", "Let", "Fun"} -> self_parse_comp_expr(toks, p)
      [] OTHER -> Err("UnexpectedToken", "TODO", NoToken, p, p)

parse_expr(toks, p) ==
    LET tk == peek(toks, p) IN
    CASE tk.k = "If" ->
            LET cond == self_parse_expr(toks, consume(toks, p)) IN
            IF ~cond.ok THEN cond ELSE
            LET t == expect(toks, cond.pos, T("Then")) IN
            IF ~t.ok THEN t ELSE
            LET then_expr == self_parse_expr(toks, t.pos) IN
            IF ~then_expr.ok THEN then_expr ELSE
            LET e == expect(toks, then_expr.pos, T("Else")) IN
            IF ~e.ok THEN e ELSE
            LET else_expr == self_parse_expr(toks, e.pos) IN
            IF ~else_expr.ok THEN else_expr
            ELSE Ok(If(cond.v, then_expr.v, else_expr.v), else_expr.pos)
      [] tk.k = "Let" ->
            LET decl == self_parse_decl(toks, consume(toks, p)) IN
            IF ~decl.ok THEN decl ELSE
            LET i == expect(toks, decl.pos, T("In")) IN
            IF ~i.ok THEN i ELSE
            LET body == self_parse_expr(toks, i.pos) IN
            IF ~body.ok THEN body ELSE
            LET e == expect(toks, body.pos, T("End")) IN
            IF ~e.ok THEN e ELSE Ok(Let(decl.v, body.v), e.pos)
      [] tk.k = "Fun" ->
            LET clauses == self_parse_match(toks, consume(toks, p)) IN
            IF ~clauses.ok THEN clauses ELSE Ok(Fn(clauses.v), clauses.pos)
      [] tk # NoToken /\ tk.k \notin {"If", "Let", "Fun"} -> self_parse_comp_expr(toks, p)
      [] OTHER -> Err("UnexpectedToken", "TODO", NoToken, p, p)

\* type_annotation, had the annotation not been optional.
type_annotation_Required(toks, p) ==
    LET c == expect(toks, p, T("Colon")) IN
    IF ~c.ok THEN c ELSE self_parse_type(toks, c.pos)

\* `if self.peek() == Some(Colon) { consume; Some(self_parse_type()?) } else { None }`
type_annotation(toks, p) ==
    IF peek(toks, p) = T("Colon")
    THEN self_parse_type(toks, consume(toks, p))
    ELSE Ok(NoType, p)

parse_decl(toks, p) ==
    LET tk == peek(toks, p) IN
    CASE tk.k = "Val" ->
            LET pat == self_parse_pattern(toks, consume(toks, p)) IN
            IF ~pat.ok THEN pat ELSE
            LET typ == type_annotation(toks, pat.pos) IN
            IF ~typ.ok THEN typ ELSE
            LET e == expect(toks, typ.pos, T("Equal")) IN
            IF ~e.ok THEN e ELSE
            LET exp == self_parse_expr(toks, e.pos) IN
            IF ~exp.ok THEN exp ELSE Ok(ValDecl(pat.v, typ.v, exp.v), exp.pos)
      [] tk.k = "Fun" ->
            LET p1 == consume(toks, p)
                name == peek(toks, p1)
            IN  IF name.k = "Id"
                THEN LET clauses == self_parse_match(toks, consume(toks, p1)) IN
                     IF ~clauses.ok THEN clauses ELSE
                     LET typ == type_annotation(toks, clauses.pos) IN
                     IF ~typ.ok THEN typ
                     ELSE Ok(FunDecl(name.s, clauses.v, typ.v), typ.pos)
                ELSE Err("UnexpectedToken", "Expected identifier after 'fun'",
                         NoToken, p, p1)
      [] tk # NoToken /\ tk.k \notin {"Val", "Fun"} ->
            Err("UnexpectedToken", "Expected 'val' or 'fun', got '{:?}'", tk, p, p)
      [] OTHER ->
            Err("UnexpectedEOF", "Expected end of input after decl", NoToken, p, p)

\* decls_loop, had it put the error of a declaration in one of its own.
decls_loop_ErrorRewrapped(toks, p, ds) ==
    LET dec == self_parse_decl(toks, p) IN
    IF ~dec.ok
    THEN Err("InvalidDeclaration", "Expected at least one declaration.",
             NoToken, p, dec.pos)
    ELSE
    IF peek(toks, dec.pos).k = "SemiColon"
    THEN self_decls_loop(toks, consume(toks, dec.pos), Append(ds, dec.v))
    ELSE Ok(Append(ds, dec.v), dec.pos)

\* The loop of parse_decls.
decls_loop(toks, p, ds) ==
    LET dec == self_parse_decl(toks, p) IN
    IF ~dec.ok THEN dec ELSE
    IF peek(toks, dec.pos).k = "SemiColon"
    THEN self_decls_loop(toks, consume(toks, dec.pos), Append(ds, dec.v))
    ELSE Ok(Append(ds, dec.v), dec.pos)

parse_decls(toks, p) ==
    LET ds == self_decls_loop(toks, p, <<>>) IN
    IF ~ds.ok THEN ds ELSE
    IF ds.v = <<>>
    THEN Err("InvalidDeclaration", "Expected at least one declaration.",
             NoToken, p, ds.pos)
    ELSE ds

\* parse_pattern, had it reported the position after the offending token.
parse_pattern_PosAfterToken(toks, p) ==
    LET tk == peek(toks, p) IN
    CASE tk.k = "Wildcard" -> Ok(PatWildcard, consume(toks, p))
      [] tk.k = "LeftParen" ->
            LET p1 == self_parse_pattern(toks, consume(toks, p)) IN
            IF ~p1.ok THEN p1 ELSE
            LET c == expect(toks, p1.pos, T("Comma")) IN
            IF ~c.ok THEN c ELSE
            LET p2 == self_parse_pattern(toks, c.pos) IN
            IF ~p2.ok THEN p2 ELSE
            LET r == expect(toks, p2.pos, T("RightParen")) IN
            IF ~r.ok THEN r ELSE Ok(PatPair(p1.v, p2.v), r.pos)
      [] tk.k = "Id" -> Ok(PatId(tk.s), consume(toks, p))
      [] tk.k \in {"Integer", "Bool", "String"} -> Ok(PatLiteral, consume(toks, p))
      [] tk.k = "SingleQuote" ->
            LET p1 == consume(toks, p)
                t1 == peek(toks, p1)
            IN  IF t1.k = "Id" THEN Ok(PatVar(t1.s), consume(toks, p1))
                ELSE Err("UnexpectedToken",
                         "Expected identifier after single quote in pattern",
                         NoToken, p, p1)
      [] tk # NoToken /\ tk.k \notin {"Wildcard", "LeftParen", "Id", "Integer",
                                      "Bool", "String", "SingleQuote"} ->
            Err("UnexpectedToken", "Invalid pattern, unexpected token: {:?}",
                tk, p + 1, p)
      [] OTHER -> Err("UnexpectedToken", "Unexpected EOF", NoToken, p, p)

\* parse_pattern, had it left the wildcard it matched unconsumed.
parse_pattern_WildcardKept(toks, p) ==
    LET tk == peek(toks, p) IN
    CASE tk.k = "Wildcard" -> Ok(PatWildcard, p)
      [] tk.k = "LeftParen" ->
            LET p1 == self_parse_pattern(toks, consume(toks, p)) IN
            IF ~p1.ok THEN p1 ELSE
            LET c == expect(toks, p1.pos, T("Comma")) IN
            IF ~c.ok THEN c ELSE
            LET p2 == self_parse_pattern(toks, c.pos) IN
            IF ~p2.ok THEN p2 ELSE
            LET r == expect(toks, p2.pos, T("RightParen")) IN
            IF ~r.ok THEN r ELSE Ok(PatPair(p1.v, p2.v), r.pos)
      [] tk.k = "Id" -> Ok(PatId(tk.s), consume(toks, p))
      [] tk.k \in {"Integer", "Bool", "String"} -> Ok(PatLiteral, consume(toks, p))
      [] tk.k = "SingleQuote" ->
            LET p1 == consume(toks, p)
                t1 == peek(toks, p1)
            IN  IF t1.k = "Id" THEN Ok(PatVar(t1.s), consume(toks, p1))
                ELSE Err("UnexpectedToken",
                         "Expected identifier after single quote in pattern",
                         NoToken, p, p1)
      [] tk # NoToken /\ tk.k \notin {"Wildcard", "LeftParen", "Id", "Integer",
                                      "Bool", "String", "SingleQuote"} ->
            Err("UnexpectedToken", "Invalid pattern, unexpected token: {:?}",
                tk, p, p)
      [] OTHER -> Err("UnexpectedToken", "Unexpected EOF", NoToken, p, p)

parse_pattern(toks, p) ==
    LET tk == peek(toks, p) IN
    CASE tk.k = "Wildcard" -> Ok(PatWildcard, consume(toks, p))
      [] tk.k = "LeftParen" ->
            LET p1 == self_parse_pattern(toks, consume(toks, p)) IN
            IF ~p1.ok THEN p1 ELSE
            LET c == expect(toks, p1.pos, T("Comma")) IN
            IF ~c.ok THEN c ELSE
            LET p2 == self_parse_pattern(toks, c.pos) IN
            IF ~p2.ok THEN p2 ELSE
            LET r == expect(toks, p2.pos, T("RightParen")) IN
            IF ~r.ok THEN r ELSE Ok(PatPair(p1.v, p2.v), r.pos)
      [] tk.k = "Id" -> Ok(PatId(tk.s), consume(toks, p))
      [] tk.k \in {"Integer", "Bool", "String"} -> Ok(PatLiteral, consume(toks, p))
      [] tk.k = "SingleQuote" ->
            LET p1 == consume(toks, p)
                t1 == peek(toks, p1)
            IN  IF t1.k = "Id" THEN Ok(PatVar(t1.s), consume(toks, p1))
                ELSE Err("UnexpectedToken",
                         "Expected identifier after single quote in pattern",
                         NoToken, p, p1)
      [] tk # NoToken /\ tk.k \notin {"Wildcard", "LeftParen", "Id", "Integer",
                                      "Bool", "String", "SingleQuote"} ->
            Err("UnexpectedToken", "Invalid pattern, unexpected token: {:?}",
                tk, p, p)
      [] OTHER -> Err("UnexpectedToken", "Unexpected EOF", NoToken, p, p)

\* The parsing function, or the loop of one, that `f` names.
call(f, toks, p, acc) ==
    CASE f = "parse_type" -> parse_type(toks, p)
      [] f = "parse_type_prefix" -> parse_type_prefix(toks, p)
      [] f = "parse_atom" -> parse_atom(toks, p)
      [] f = "parse_app_expr" -> parse_app_expr(toks, p)
      [] f = "parse_mul_expr" -> parse_mul_expr(toks, p)
      [] f = "parse_add_expr" -> parse_add_expr(toks, p)
      [] f = "parse_comp_expr" -> parse_comp_expr(toks, p)
      [] f = "parse_match" -> parse_match(toks, p)
      [] f = "parse_expr" -> parse_expr(toks, p)
      [] f = "parse_decl" -> parse_decl(toks, p)
      [] f = "parse_decls" -> parse_decls(toks, p)
      [] f = "parse_pattern" -> parse_pattern(toks, p)
      [] f = "comma_exprs" -> comma_exprs(toks, p, acc)
      [] f = "app_loop" -> app_loop(toks, p, acc)
      [] f = "mul_loop" -> mul_loop(toks, p, acc)
      [] f = "add_loop" -> add_loop(toks, p, acc)
      [] f = "comp_loop" -> comp_loop(toks, p, acc)
      [] f = "match_loop" -> match_loop(toks, p, acc)
      [] f = "decls_loop" -> decls_loop(toks, p, acc)
      [] f = "match_arm" -> match_arm(toks, p, acc)

(***************************************************************************)
(* Source texts.                                                           *)
(***************************************************************************)
Alphabet ==
    {"i", "f", "1", ".", "_", " ", NL, "<", "=", ">", "-", ":", "#",
     EAcute, Nbsp, Euro}

Texts == UNION { [1..n -> Alphabet] : n \in 0..MaxLen }

\* Longer texts: programs, and words the alphabet above does not spell.
SrcValX1 == <<"v", "a", "l", " ", "x", " ", "=", " ", "1">>
SrcValTyped ==
    <<"v", "a", "l", " ", "x", " ", ":", " ", "i", "n", "t", " ", "=", " ", "1">>
SrcFunF ==
    <<"f", "u", "n", " ", "f", " ", "x", " ", "=", ">", " ", "x", " ", "+",
      " ", "1">>
SrcFunG ==
    <<"f", "u", "n", " ", "g", " ", "x", " ", "=", ">", " ", "x", " ", "-",
      " ", "1", NL, "|", " ", "_", " ", "=", ">", " ", "2", " ", ":", " ",
      "i", "n", "t">>
SrcTwoDecls ==
    <<"v", "a", "l", " ", "x", " ", "=", " ", "1", "2", NL,
      "v", "a", "l", " ", "y", " ", "=", " ", "f", "a", "l", "s", "e">>
SrcTrue == <<"t", "r", "u", "e">>
SrcComment == <<"C", "o", "m", "m", "e", "n", "t">>
SrcFloat == <<"1", "2", ".", "5", "0", " ", "x", "1">>
SrcOperators == <<"(", "*", "-", ">", ":", ":", ">", "=", "'", "a", "*", ")">>

SrcIf ==
    <<"i", "f", " ", "t", "r", "u", "e", " ", "t", "h", "e", "n", " ", "1",
      " ", "e", "l", "s", "e", " ", "2">>
SrcValIf == <<"v", "a", "l", " ", "r", " ", "=", " ">> \o SrcIf
SrcValEq == <<"v", "a", "l", " ", "=", " ", "1">>
SrcAccent == <<"v", "a", "l", " ", EAcute, " ", "=", " ", "1">>
SrcHash == <<"v", "a", "l", " ", "x", " ", "=", " ", "1", " ", "#">>

\* `val x = a op b` for each ordering comparison.
OrderingLexemes == { <<"<">>, <<"<", "=">>, <<">">>, <<">", "=">> }
SrcCompare(op) ==
    <<"v", "a", "l", " ", "x", " ", "=", " ", "a", " ">> \o op \o <<" ", "b">>

Programs ==
    {SrcValX1, SrcValTyped, SrcFunF, SrcFunG, SrcTwoDecls, SrcTrue, SrcComment,
     SrcFloat, SrcOperators, SrcIf, SrcValIf, SrcValEq, SrcAccent, SrcHash}
    \cup { SrcCompare(op) : op \in OrderingLexemes }

Sources == { Encode(s) : s \in Texts \cup Programs }

(***************************************************************************)
(* Token sequences handed to Parser::new without a lexer: Parser::new and  *)
(* Parser::parse are public, and the parser handles token types the lexer  *)
(* never pushes (EOF, Error, SemiColon, CompEqual, CompNotEqual).          *)
(***************************************************************************)
\* Every token sequence of at most MaxTokens tokens over TokenKinds.
MaxTokens == 3
\* Every operator chain of at most MaxOperands operands.
MaxOperands == 3
\* Every parenthesised list of at most MaxItems items.
MaxItems == 3
\* parse is called at most MaxParses times on one Parser.
MaxParses == 2

\* The parser reads the type of a token only.
Tok(ty) == Token(1, 1, 1, ty)

TokenKinds ==
    {T("Val"), T("Fun"), TS("Id", <<"x">>), TS("Integer", <<"1">>), T("Equal"),
     T("FatArrow"), T("LeftParen"), T("RightParen"), T("Comma"),
     T("SemiColon"), T("EOF"), T("Error")}

TokenSeqs == UNION { [1..n -> {Tok(k) : k \in TokenKinds}] : n \in 0..MaxTokens }

\* Programs that use every construct of the grammar, as tokens: each is cut
\* short after every token, and given with each token in turn replaced by
\* an Error token.
TId(name) == Tok(TS("Id", <<name>>))
TInt == Tok(TS("Integer", <<"1">>))
TK(k) == Tok(T(k))

\* val ( x , _ ) : ' a -> int = 1
SeedTypedVal ==
    <<TK("Val"), TK("LeftParen"), TId("x"), TK("Comma"), TK("Wildcard"),
      TK("RightParen"), TK("Colon"), TK("SingleQuote"), TId("a"), TK("Arrow"),
      TK("TypeInt"), TK("Equal"), TInt>>
\* val x = if a then 1 * a else [ a , 1 ]
SeedIf ==
    <<TK("Val"), TId("x"), TK("Equal"), TK("If"), TId("a"), TK("Then"), TInt,
      TK("Multiply"), TId("a"), TK("Else"), TK("LeftBracket"), TId("a"),
      TK("Comma"), TInt, TK("RightBracket")>>
\* fun f x => a | ' y => 1 : ( int , bool )
SeedFun ==
    <<TK("Fun"), TId("f"), TId("x"), TK("FatArrow"), TId("a"), TK("Bar"),
      TK("SingleQuote"), TId("y"), TK("FatArrow"), TInt, TK("Colon"),
      TK("LeftParen"), TK("TypeInt"), TK("Comma"), TK("TypeBool"),
      TK("RightParen")>>
\* val x = let val y = 1 in fun z => ( y , z ) end
SeedLet ==
    <<TK("Val"), TId("x"), TK("Equal"), TK("Let"), TK("Val"), TId("y"),
      TK("Equal"), TInt, TK("In"), TK("Fun"), TId("z"), TK("FatArrow"),
      TK("LeftParen"), TId("y"), TK("Comma"), TId("z"), TK("RightParen"),
      TK("End")>>
\* val x = 1 ; val y = a ; fun f x => 1
SeedDecls ==
    <<TK("Val"), TId("x"), TK("Equal"), TInt, TK("SemiColon"), TK("Val"),
      TId("y"), TK("Equal"), TId("a"), TK("SemiColon"), TK("Fun"), TId("f"),
      TId("x"), TK("FatArrow"), TInt>>
\* val x = 1 val y = a
SeedJuxtaposed ==
    <<TK("Val"), TId("x"), TK("Equal"), TInt, TK("Val"), TId("y"), TK("Equal"),
      TId("a")>>

Seeds == {SeedTypedVal, SeedIf, SeedFun, SeedLet, SeedDecls, SeedJuxtaposed}

Prefixes(seq) == { SubSeq(seq, 1, n) : n \in 0..Len(seq) }
WithError(seq) == { [seq EXCEPT ![i] = TK("Error")] : i \in 1..Len(seq) }

SeedSeqs == UNION { Prefixes(seq) \cup WithError(seq) : seq \in Seeds }

\* `val x =`, the declaration an expression is written in.
ValX == <<Tok(T("Val")), Tok(TS("Id", <<"x">>)), Tok(T("Equal"))>>

NoAst == [t |-> "<none>"]

\* An operator chain is written as  a op b op c ...  where an operator is a
\* token type or juxtaposition (no token).  Its expression groups by the
\* grammar's levels, each level to the left.
Juxtaposition == [k |-> "<juxtaposition>"]
Operators ==
    {Juxtaposition, T("Multiply"), T("Divide"), T("Plus"), T("Minus"),
     T("Less"), T("StrictLess"), T("Greater"), T("StrictGreater"),
     T("CompEqual"), T("CompNotEqual")}
OperandNames == <<"a", "b", "c", "d", "e">>
Operand(i) == Id(<<OperandNames[i]>>)

Level(op) ==
    CASE op = Juxtaposition -> 4
      [] op.k \in {"Multiply", "Divide"} -> 3
      [] op.k \in {"Plus", "Minus"} -> 2
      [] OTHER -> 1

OpNode(op, l, r) ==
    CASE op = Juxtaposition -> App(l, r)
      [] op.k = "Multiply" -> BinOp(l, "Mul", r)
      [] op.k = "Divide" -> BinOp(l, "Div", r)
      [] op.k = "Plus" -> BinOp(l, "Add", r)
      [] op.k = "Minus" -> BinOp(l, "Sub", r)
      [] OTHER -> BinOp(l, comp_op(op), r)

\* The expression of operands lo..hi, ops[i] standing between operands i and
\* i+1: it splits at the last operator of the loosest level.
RECURSIVE Grouped(_, _, _)
Grouped(lo, hi, ops) ==
    IF lo = hi THEN Operand(lo)
    ELSE LET loosest == CHOOSE m \in 1..4 :
                 /\ \E i \in lo..(hi - 1) : Level(ops[i]) = m
                 /\ \A i \in lo..(hi - 1) : Level(ops[i]) >= m
             k == CHOOSE i \in lo..(hi - 1) :
                 /\ Level(ops[i]) = loosest
                 /\ \A j \in (i + 1)..(hi - 1) : Level(ops[j]) > loosest
         IN OpNode(ops[k], Grouped(lo, k, ops), Grouped(k + 1, hi, ops))

RECURSIVE ChainTokens(_, _)
ChainTokens(n, ops) ==
    IF n = 1 THEN <<Tok(TS("Id", <<OperandNames[1]>>))>>
    ELSE ChainTokens(n - 1, ops)
         \o (IF ops[n - 1] = Juxtaposition THEN <<>> ELSE <<Tok(ops[n - 1])>>)
         \o <<Tok(TS("Id", <<OperandNames[n]>>))>>

Chain(n, ops) == [toks |-> ChainTokens(n, ops), ast |-> Grouped(1, n, ops)]

ChainCases ==
    UNION { { Chain(n, ops) : ops \in [1..(n - 1) -> Operators] } :
            n \in 1..MaxOperands }

\* A parenthesised list is written as  ( e1 , ... , en ):  the unit for
\* n = 0, e1 itself for n = 1, the tuple of its items otherwise.
Items ==
    {[toks |-> <<Tok(TS("Id", <<"a">>))>>, ast |-> Id(<<"a">>)],
     [toks |-> <<Tok(TS("Integer", <<"1">>))>>,
      ast |-> Literal("Integer", <<"1">>)],
     [toks |-> <<Tok(TS("Id", <<"a">>)), Tok(T("Plus")),
                 Tok(TS("Integer", <<"1">>))>>,
      ast |-> BinOp(Id(<<"a">>), "Add", Literal("Integer", <<"1">>))]}

RECURSIVE Separated(_)
Separated(es) ==
    IF es = <<>> THEN <<>>
    ELSE IF Len(es) = 1 THEN es[1].toks
    ELSE es[1].toks \o <<Tok(T("Comma"))>> \o Separated(Tail(es))

Parenthesised(es) ==
    [toks |-> <<Tok(T("LeftParen"))>> \o Separated(es) \o <<Tok(T("RightParen"))>>,
     ast |-> IF Len(es) = 1 THEN es[1].ast
             ELSE Tuple([i \in 1..Len(es) |-> es[i].ast])]

ParenCases ==
    { Parenthesised(es) : es \in UNION { [1..n -> Items] : n \in 0..MaxItems } }

\* One more level of parentheses, around and beside a parenthesised list.
NestedCases ==
    UNION { { Parenthesised(<<c>>), Parenthesised(<<c, c>>) }
            \cup { Parenthesised(<<c, e>>) : e \in Items }
            \cup { Parenthesised(<<e, c>>) : e \in Items } : c \in ParenCases }

Cases == ChainCases \cup ParenCases \cup NestedCases

\* Types as they are written: base types joined by `->` and `*`.
TypeSuffixes == {T("Arrow"), T("Multiply")}

TypeBases ==
    <<[toks |-> <<Tok(T("TypeInt"))>>, ast |-> TyInt],
      [toks |-> <<Tok(T("TypeBool"))>>, ast |-> TyBool],
      [toks |-> <<Tok(T("SingleQuote")), Tok(TS("Id", <<"a">>))>>,
       ast |-> TyVar(<<"a">>)]>>

RECURSIVE TypeTokens(_, _)
TypeTokens(bases, ops) ==
    IF Len(bases) = 1 THEN TypeBases[bases[1]].toks
    ELSE TypeBases[bases[1]].toks \o <<Tok(ops[1])>>
         \o TypeTokens(Tail(bases), Tail(ops))

\* The type the written suffixes stand for: the first base type, and to
\* the right of the first suffix the whole of the rest.
RECURSIVE RightType(_, _)
RightType(bases, ops) ==
    IF Len(bases) = 1 THEN TypeBases[bases[1]].ast
    ELSE IF ops[1] = T("Arrow")
    THEN TyArrow(TypeBases[bases[1]].ast, RightType(Tail(bases), Tail(ops)))
    ELSE TyProduct(TypeBases[bases[1]].ast, RightType(Tail(bases), Tail(ops)))

TypeCases ==
    UNION { { [toks |-> TypeTokens(bases, ops), ast |-> RightType(bases, ops)] :
                bases \in [1..n -> 1..Len(TypeBases)],
                ops \in [1..(n - 1) -> TypeSuffixes] } : n \in 1..MaxOperands }

\* val x : <type> = 1
TypedValX(toks) ==
    <<Tok(T("Val")), Tok(TS("Id", <<"x">>)), Tok(T("Colon"))>> \o toks
        \o <<Tok(T("Equal")), Tok(TS("Integer", <<"1">>))>>

TypedSeqs == { TypedValX(c.toks) : c \in TypeCases }

(***************************************************************************)
(* Lexer::new, then Lexer::tokenize, one action per way through the body   *)
(* of its loop.                                                            *)
(***************************************************************************)
Init ==
    /\ source \in Sources
    /\ cur_idx = 0
    /\ start_idx = 0
    /\ pos_line = 1
    /\ pos_col = 1
    /\ tokens = <<>>
    /\ tok_start = <<>>
    /\ pc = "scan"
    /\ ptokens = <<>>
    /\ pos = 0
    /\ decls = <<>>
    /\ result = [ok |-> FALSE]
    /\ earlier = <<>>
    /\ written = NoAst

Scanning == pc = "scan" /\ cur_idx < Len(source)

\* `&self.source[self.cur_idx..]` off a character boundary: the slice panics.
LexPanic ==
    /\ Scanning
    /\ ~is_char_boundary(source, cur_idx)
    /\ start_idx' = cur_idx
    /\ pc' = "panic"
    /\ UNCHANGED <<source, cur_idx, pos_line, pos_col, tokens, tok_start,
                   ptokens, pos, decls, result, earlier, written>>

\* LexWhitespace, had a newline not started a line at column 1.
LexWhitespace_NoColumnReset ==
    /\ Scanning
    /\ is_char_boundary(source, cur_idx)
    /\ LET ch == Head(CharsFrom(source, cur_idx)) IN
        /\ is_whitespace(ch)
        /\ start_idx' = cur_idx
        /\ cur_idx' = cur_idx + 1
        /\ pos_line' = IF ch = NL THEN pos_line + 1 ELSE pos_line
        /\ pos_col' = pos_col + 1
    /\ UNCHANGED <<source, tokens, tok_start, pc, ptokens, pos, decls, result,
                   earlier, written>>

\* The white space branch.
LexWhitespace ==
    /\ Scanning
    /\ is_char_boundary(source, cur_idx)
    /\ LET ch == Head(CharsFrom(source, cur_idx)) IN
        /\ is_whitespace(ch)
        /\ start_idx' = cur_idx
        /\ cur_idx' = cur_idx + 1
        /\ pos_line' = IF ch = NL THEN pos_line + 1 ELSE pos_line
        /\ pos_col' = IF ch = NL THEN 1 ELSE pos_col + 1
    /\ UNCHANGED <<source, tokens, tok_start, pc, ptokens, pos, decls, result,
                   earlier, written>>

\* A matcher returned a token type: the token is pushed.
LexToken ==
    /\ Scanning
    /\ is_char_boundary(source, cur_idx)
    /\ LET remaining == CharsFrom(source, cur_idx)
           m == match_token(remaining)
       IN
        /\ ~is_whitespace(Head(remaining))
        /\ m.ty # NoToken
        /\ start_idx' = cur_idx
        /\ tokens' = Append(tokens, Token(pos_line, pos_col, m.len, m.ty))
        /\ tok_start' = Append(tok_start, cur_idx)
        /\ cur_idx' = cur_idx + m.len
        /\ pos_col' = pos_col + m.len
    /\ UNCHANGED <<source, pos_line, pc, ptokens, pos, decls, result, earlier,
                   written>>

\* LexInvalid, had it left the cursor where it is.
LexInvalid_Stuck ==
    /\ Scanning
    /\ is_char_boundary(source, cur_idx)
    /\ LET remaining == CharsFrom(source, cur_idx) IN
        /\ ~is_whitespace(Head(remaining))
        /\ match_token(remaining).ty = NoToken
        /\ start_idx' = cur_idx
        /\ pos_col' = pos_col + 1
    /\ UNCHANGED <<source, cur_idx, pos_line, tokens, tok_start, pc, ptokens,
                   pos, decls, result, earlier, written>>

\* No matcher returned a token type: "Invalid character" is printed and the
\* character is skipped.
LexInvalid ==
    /\ Scanning
    /\ is_char_boundary(source, cur_idx)
    /\ LET remaining == CharsFrom(source, cur_idx) IN
        /\ ~is_whitespace(Head(remaining))
        /\ match_token(remaining).ty = NoToken
        /\ start_idx' = cur_idx
        /\ cur_idx' = cur_idx + 1
        /\ pos_col' = pos_col + 1
    /\ UNCHANGED <<source, pos_line, tokens, tok_start, pc, ptokens, pos,
                   decls, result, earlier, written>>

\* The loop condition fails: tokenize returns `tokens`.
LexReturn ==
    /\ pc = "scan"
    /\ ~(cur_idx < Len(source))
    /\ pc' = "lexed"
    /\ UNCHANGED <<lexvars, ptokens, pos, decls, result, earlier, written>>

(***************************************************************************)
(* Parser::new on the tokens tokenize returned, then Parser::parse, one    *)
(* action per turn of its loop.                                            *)
(***************************************************************************)
ParserNew ==
    /\ pc = "lexed"
    /\ ptokens' = tokens
    /\ pos' = 0
    /\ pc' = "parsing"
    /\ UNCHANGED <<lexvars, decls, result, earlier, written>>

\* parse_decls returned Ok: its declarations are pushed.
ParseDecls ==
    /\ pc = "parsing"
    /\ peek(ptokens, pos) # NoToken
    /\ LET r == parse_decls(ptokens, pos) IN
        /\ r.ok
        /\ decls' = decls \o r.v
        /\ pos' = r.pos
    /\ UNCHANGED <<lexvars, pc, ptokens, result, earlier, written>>

\* parse_decls returned Err: `?` returns it from parse.
ParseError ==
    /\ pc = "parsing"
    /\ peek(ptokens, pos) # NoToken
    /\ LET r == parse_decls(ptokens, pos) IN
        /\ ~r.ok
        /\ result' = [ok |-> FALSE, err |-> r.err]
        /\ pos' = r.pos
    /\ pc' = "parsed"
    /\ UNCHANGED <<lexvars, ptokens, decls, earlier, written>>

\* ParseReturn, had parse returned after the first parse_decls.
ParseReturn_AfterFirstDecls ==
    /\ pc = "parsing"
    /\ peek(ptokens, pos) = NoToken \/ decls # <<>>
    /\ result' = [ok |-> TRUE, ast |-> Program(decls)]
    /\ pc' = "parsed"
    /\ UNCHANGED <<lexvars, ptokens, pos, decls, earlier, written>>

\* No token is left: parse returns Ok(Program(decls)).
ParseReturn ==
    /\ pc = "parsing"
    /\ peek(ptokens, pos) = NoToken
    /\ result' = [ok |-> TRUE, ast |-> Program(decls)]
    /\ pc' = "parsed"
    /\ UNCHANGED <<lexvars, ptokens, pos, decls, earlier, written>>

Next ==
    \/ LexPanic
    \/ LexWhitespace
    \/ LexToken
    \/ LexInvalid
    \/ LexReturn
    \/ ParserNew
    \/ ParseDecls
    \/ ParseError
    \/ ParseReturn

Spec == Init /\ [][Next]_vars

(***************************************************************************)
(* The parser on its own: Parser::new on the tokens of a program, or on a  *)
(* token sequence handed to it directly, and Parser::parse called on that  *)
(* Parser, possibly again.                                                 *)
(***************************************************************************)
ParserInit ==
    /\ cur_idx = 0
    /\ start_idx = 0
    /\ pos_line = 1
    /\ pos_col = 1
    /\ tokens = <<>>
    /\ tok_start = <<>>
    /\ pos = 0
    /\ decls = <<>>
    /\ result = [ok |-> FALSE]
    /\ earlier = <<>>
    /\ \/ /\ source \in { Encode(s) : s \in Programs }
          /\ pc = "scan"
          /\ ptokens = <<>>
          /\ written = NoAst
       \/ /\ source = <<>>
          /\ pc = "parsing"
          /\ ptokens \in TokenSeqs \cup SeedSeqs \cup TypedSeqs
          /\ written = NoAst
       \/ /\ source = <<>>
          /\ pc = "parsing"
          /\ \E c \in Cases :
              /\ ptokens = ValX \o c.toks
              /\ written = c.ast
       \/ /\ source = <<>>
          /\ pc = "parsing"
          /\ \E c \in Items : ptokens = ValX \o c.toks \o <<Tok(T("EOF"))>>
          /\ written = NoAst

\* parse(&mut self) is called again on the Parser: `decls` is a new Vec,
\* self.pos is what the call before left.
ParseAgain ==
    /\ pc = "parsed"
    /\ Len(earlier) + 1 < MaxParses
    /\ earlier' = Append(earlier, result)
    /\ decls' = <<>>
    /\ pc' = "parsing"
    /\ UNCHANGED <<lexvars, ptokens, pos, result, written>>

ParserNext ==
    \/ Next
    \/ ParseAgain

ParserSpec == ParserInit /\ [][ParserNext]_vars

(***************************************************************************)
(* What the claims speak of.                                               *)
(***************************************************************************)
Last(seq) == seq[Len(seq)]

IsAscii(src) == \A i \in 1..Len(src) : src[i] \in AsciiChars

\* The characters the cursor stands at, when it stands on a character.
AtCursor == CharsFrom(source, cur_idx)
OnCharacter == Scanning /\ is_char_boundary(source, cur_idx)

\* A step of the loop of tokenize that pushed a token.
Pushed == Len(tokens') = Len(tokens) + 1

\* 1-based line and column of byte i of an ASCII text: a newline starts a
\* line, every other character is one column.
LineAt(src, i) == 1 + Cardinality({j \in 1..i : src[j] = NL})
ColAt(src, i) ==
    LET nls == {j \in 1..i : src[j] = NL}
        last_nl == IF nls = {} THEN 0 ELSE CHOOSE j \in nls : \A k \in nls : k <= j
    IN  i - last_nl + 1

\* The lexeme of token i: the characters from its start, `len` of them.
Lexeme(i) == SubSeq(CharsFrom(source, tok_start[i]), 1, tokens[i].len)

\* C1: the token sequence tokenize returns ends with an EOF token, and EOF
\* occurs exactly once in it, also for the empty source.
C1_EndsWithOneEOF ==
    pc = "lexed" =>
        /\ tokens # <<>>
        /\ Last(tokens).ty = T("EOF")
        /\ Cardinality({i \in 1..Len(tokens) : tokens[i].ty = T("EOF")}) = 1

\* C2: tokenize terminates: every turn of its loop (white space, token,
\* invalid character) moves cur_idx strictly forward and never past the end
\* of the source, so the distance to the end falls with every turn, and the
\* loop is left once cur_idx has reached the end, with the tokens returned.
C2_Terminates ==
    /\ [][(pc = "scan" /\ pc' = "scan")
            => (cur_idx < cur_idx' /\ cur_idx' <= Len(source))]_vars
    /\ [][(pc = "scan" /\ cur_idx >= Len(source)) => pc' = "lexed"]_vars
    /\ [][(pc = "scan" /\ pc' = "lexed") => cur_idx = Len(source)]_vars
    /\ [](pc = "lexed" => cur_idx = Len(source))

\* A scan of white space, a token and an invalid character has returned.
C2_Witness ==
    /\ pc = "lexed"
    /\ source = <<" ", "#", "i">>
    /\ cur_idx = 3
    /\ Len(tokens) = 1

\* C3: tokenize never panics, for any UTF-8 source: wherever it slices the
\* source the cursor is on a character boundary and not beyond the end.
C3_NeverPanics ==
    /\ pc # "panic"
    /\ pc = "scan" => (cur_idx <= Len(source) /\ is_char_boundary(source, cur_idx))

\* A character that starts no identifier, keyword, number, punctuation or
\* operator lexeme.
StartsNoLexeme(c) ==
    /\ ~is_whitespace(c)
    /\ ~is_alphabetic(c) /\ c # "_" /\ ~is_digit(c)
    /\ \A e \in TokenDictMap : e.key[1] # c

\* C4: at a character that starts no lexeme tokenize pushes one Error token
\* of length 1 with the character's position, and moves on one character.
C4_ErrorToken ==
    [][(OnCharacter /\ StartsNoLexeme(Head(AtCursor)))
        => /\ tokens' = Append(tokens, Token(pos_line, pos_col, 1, T("Error")))
           /\ pc' = "scan"]_vars

\* The two-character lexemes of the vocabulary.
TwoCharLexemes ==
    {<<"<", "=">>, <<">", "=">>, <<"=", ">">>, <<"-", ">">>, <<":", ":">>,
     <<"<", ">">>}

\* C5: when the next two characters are a two-character lexeme, tokenize
\* pushes one token of length 2 for them, not a token for the first alone.
C5_LongestMatch ==
    [][(OnCharacter /\ Len(AtCursor) >= 2
            /\ <<AtCursor[1], AtCursor[2]>> \in TwoCharLexemes)
        => /\ Pushed
           /\ Last(tokens').len = 2
           /\ cur_idx' = cur_idx + 2]_vars

\* The longest prefix of cs made of digits.
RECURSIVE DigitPrefix(_)
DigitPrefix(cs) ==
    IF cs # <<>> /\ is_digit(Head(cs))
    THEN <<Head(cs)>> \o DigitPrefix(Tail(cs))
    ELSE <<>>

\* The number token the specification gives the digits at the head of cs:
\* a '.' belongs to the number only when a digit follows it.
NumberToken(cs) ==
    LET int == DigitPrefix(cs)
        rest == SubSeq(cs, Len(int) + 1, Len(cs))
        frac == IF rest # <<>> /\ Head(rest) = "." THEN DigitPrefix(Tail(rest))
                ELSE <<>>
    IN  IF frac # <<>> THEN TS("Float", int \o <<".">> \o frac)
        ELSE TS("Integer", int)

\* C6: the token pushed at a digit is Integer(digits) when no '.' and digit
\* follow the digits, and Float(digits '.' digits) when they do; its length
\* is the length of that text, so "1." gives Integer("1") of length 1.
C6_NumberScan ==
    \A i \in 1..Len(tokens) :
        LET cs == CharsFrom(source, tok_start[i]) IN
        is_digit(Head(cs)) =>
            /\ tokens[i].ty = NumberToken(cs)
            /\ tokens[i].len = Len(NumberToken(cs).s)

\* The fixed keywords: the words of the grammar that the token dictionary
\* holds.
Keywords ==
    { <<"l", "e", "t">>, <<"f", "u", "n">>, <<"i", "n">>, <<"e", "n", "d">>,
      <<"c", "a", "s", "e">>, <<"o", "f">>, <<"v", "a", "l">>,
      <<"t", "y", "p", "e">>, <<"n", "i", "l">>, <<"n", "o", "n", "e">>,
      <<"s", "o", "m", "e">>, <<"i", "n", "t">>, <<"b", "o", "o", "l">>,
      <<"i", "f">>, <<"t", "h", "e", "n">>, <<"e", "l", "s", "e">> }
Booleans == { <<"t", "r", "u", "e">>, <<"f", "a", "l", "s", "e">> }

\* C7: the token pushed at a letter or '_' is decided by the maximal word w
\* there: the keyword's token when w is a keyword, Bool(w) for true and
\* false, the wildcard for "_", and Id(w) for every other word.
C7_WordTokens ==
    \A i \in 1..Len(tokens) :
        LET cs == CharsFrom(source, tok_start[i])
            w == WordPrefix(cs)
        IN  (is_alphabetic(Head(cs)) \/ Head(cs) = "_") =>
                /\ tokens[i].len = Len(w)
                /\ CASE w \in Keywords ->
                            tokens[i].ty = DictGet(w) /\ ~("s" \in DOMAIN tokens[i].ty)
                     [] w \in Booleans -> tokens[i].ty = TS("Bool", w)
                     [] w = <<"_">> -> tokens[i].ty = T("Wildcard")
                     [] OTHER -> tokens[i].ty = TS("Id", w)

\* C8: for ASCII input, each token's line and column are the 1-based position
\* of the first character of its lexeme, its length is the number of
\* characters the cursor moved over for it, its lexeme is the text it stands
\* for, and the tokens follow one another in source order without overlap.
C8_PositionsInv ==
    IsAscii(source) =>
        \A i \in 1..Len(tokens) :
            /\ tokens[i].line = LineAt(source, tok_start[i])
            /\ tokens[i].col = ColAt(source, tok_start[i])
            /\ tokens[i].len >= 1
            /\ tok_start[i] + tokens[i].len <=
                   (IF i < Len(tokens) THEN tok_start[i + 1] ELSE cur_idx)
            /\ IF "s" \in DOMAIN tokens[i].ty /\ tokens[i].ty.k # "Bool"
               THEN tokens[i].ty.s = Lexeme(i)
               ELSE tokens[i].ty = DictGet(Lexeme(i))

C8_Positions ==
    /\ []C8_PositionsInv
    /\ [][(IsAscii(source) /\ Pushed)
            => cur_idx' = cur_idx + Last(tokens').len]_vars

\* Tokens on two lines, after white space, have been returned.
C8_Witness ==
    /\ pc = "lexed"
    /\ source = Encode(SrcFunG)
    /\ Len(tokens) = 13
    /\ tokens[9] = Token(2, 3, 1, T("Wildcard"))

\* C9: parsing the tokens of `val x = 1` gives
\* Program([ValDecl{pat = Id("x"), typ = None, exp = Literal(Integer("1"))}]);
\* a val declaration whose pattern is followed by '=' has no type.
C9_ValDecl ==
    /\ (pc = "parsed" /\ source = Encode(SrcValX1)) =>
            result = [ok |-> TRUE,
                      ast |-> Program(<<ValDecl(PatId(<<"x">>), NoType,
                                                Literal("Integer", <<"1">>))>>)]
    /\ (pc = "parsed" /\ result.ok /\ Len(ptokens) >= 3
            /\ ptokens[1].ty = T("Val") /\ ptokens[3].ty = T("Equal")) =>
            /\ result.ast.decls[1].t = "ValDecl"
            /\ result.ast.decls[1].typ = NoType

C9_Witness ==
    /\ pc = "parsed"
    /\ source = Encode(SrcValX1)
    /\ result.ok
    /\ pos = 4

\* C10: parsing the tokens of `fun f x => x + 1` gives
\* Program([FunDecl{name = "f", clauses = [(Id("x"), BinOp(Id("x"), Add,
\* Literal(Integer("1"))))], typ = None}]).
C10_FunDecl ==
    (pc = "parsed" /\ source = Encode(SrcFunF)) =>
        result = [ok |-> TRUE,
                  ast |-> Program(<<FunDecl(<<"f">>,
                                     << <<PatId(<<"x">>),
                                          BinOp(Id(<<"x">>), "Add",
                                                Literal("Integer", <<"1">>))>> >>,
                                     NoType)>>)]

C10_Witness ==
    /\ pc = "parsed"
    /\ source = Encode(SrcFunF)
    /\ result.ok
    /\ pos = 7

\* The call of parse whose return value `result` is: the first on its Parser.
FirstParse == earlier = <<>>

IfTrue12 ==
    If(Literal("Boolean", <<"t", "r", "u", "e">>), Literal("Integer", <<"1">>),
       Literal("Integer", <<"2">>))

\* C11, as the claim states it: parse applied to the tokens of
\* `if true then 1 else 2` returns the If node.
C11_ParseReturnsIf ==
    (pc = "parsed" /\ FirstParse /\ source = Encode(SrcIf)) =>
        (result.ok /\ result.ast = IfTrue12)

\* C11: parse_expr applied to the tokens of `if true then 1 else 2` returns
\* If{cond = Literal(Boolean("true")), then = Literal(Integer("1")),
\* else = Literal(Integer("2"))}, at the top of the token sequence and as the
\* expression of `val r = if true then 1 else 2`; parse itself takes
\* declarations only and fails on the bare expression with UnexpectedToken at
\* token 0.
C11_IfExpr ==
    /\ (pc \in {"parsing", "parsed"} /\ source = Encode(SrcIf)) =>
            parse_expr(ptokens, 0) = Ok(IfTrue12, 6)
    /\ (pc = "parsed" /\ FirstParse /\ source = Encode(SrcIf)) =>
            /\ ~result.ok
            /\ result.err.kind = "UnexpectedToken"
            /\ result.err.pos = 0
    /\ (pc = "parsed" /\ FirstParse /\ source = Encode(SrcValIf)) =>
            result = [ok |-> TRUE,
                      ast |-> Program(<<ValDecl(PatId(<<"r">>), NoType, IfTrue12)>>)]

C11_Witness ==
    /\ pc = "parsed"
    /\ FirstParse
    /\ source = Encode(SrcValIf)
    /\ result.ok
    /\ result.ast.decls[1].exp.t = "If"
    /\ pos = 9

\* C12: parsing the tokens of `val = 1` fails with a ParseError of kind
\* UnexpectedToken or InvalidPattern whose position is 1, the index of `=`;
\* a `val` followed by a token that cannot start a pattern fails at that
\* token's index, where parse meets it first and wherever parse_decl meets it.
PatternStart ==
    {"Wildcard", "LeftParen", "Id", "Integer", "Bool", "String", "SingleQuote"}

FailsAt(r, i) ==
    /\ ~r.ok
    /\ r.err.kind \in {"UnexpectedToken", "InvalidPattern"}
    /\ r.err.pos = i

C12_ValWithoutPattern ==
    /\ (pc = "parsed" /\ FirstParse /\ source = Encode(SrcValEq)) =>
            FailsAt(result, 1)
    /\ (pc = "parsed" /\ FirstParse /\ Len(ptokens) >= 2
            /\ ptokens[1].ty = T("Val") /\ ptokens[2].ty.k \notin PatternStart) =>
            FailsAt(result, 1)
    /\ (pc = "parsing" /\ FirstParse) =>
            \A i \in 1..(Len(ptokens) - 1) :
                (ptokens[i].ty = T("Val") /\ ptokens[i + 1].ty.k \notin PatternStart)
                    => FailsAt(parse_decl(ptokens, i - 1), i)

C12_Witness ==
    /\ pc = "parsed"
    /\ FirstParse
    /\ source = Encode(SrcValEq)
    /\ ptokens[2].ty = T("Equal")
    /\ ~result.ok
    /\ result.err.pos = 1

\* C13: whenever parse succeeds, the Program it returns has at least one
\* declaration; the empty token sequence yields a ParseError.
C13_AtLeastOneDecl ==
    (pc = "parsed" /\ FirstParse) =>
        /\ result.ok => Len(result.ast.decls) >= 1
        /\ ptokens = <<>> => ~result.ok

\* C14: parse called again on the same token sequence returns what the call
\* before returned, the same AST or the same error: the position the earlier
\* call left the cursor at does not change the outcome.
C14_SameResultAgain ==
    (pc = "parsed" /\ ~FirstParse) =>
        \A i \in 1..Len(earlier) : result = earlier[i]
\* Every node of an AST: the node itself and the nodes below it.
RECURSIVE Nodes(_)
Nodes(n) ==
    {n} \cup
    CASE n.t = "Program" -> UNION { Nodes(n.decls[i]) : i \in DOMAIN n.decls }
      [] n.t = "ValDecl" -> Nodes(n.exp)
      [] n.t \in {"FunDecl", "Fn"} ->
            UNION { Nodes(n.clauses[i][2]) : i \in DOMAIN n.clauses }
      [] n.t = "If" -> Nodes(n.cond) \cup Nodes(n.then) \cup Nodes(n.else_)
      [] n.t = "Let" -> Nodes(n.decl) \cup Nodes(n.body)
      [] n.t = "BinOp" -> Nodes(n.left) \cup Nodes(n.right)
      [] n.t = "App" -> Nodes(n.func) \cup Nodes(n.arg)
      [] n.t \in {"Tuple", "List"} ->
            UNION { Nodes(n.items[i]) : i \in DOMAIN n.items }
      [] OTHER -> {}

\* parse returned the program `val x = e`.
ReturnedValX(e) ==
    result = [ok |-> TRUE, ast |-> Program(<<ValDecl(PatId(<<"x">>), NoType, e)>>)]

\* The tokens are `val x =` and an expression written in parentheses.
WrittenInParens ==
    written # NoAst /\ ptokens[Len(ValX) + 1].ty = T("LeftParen")

\* C15: no successfully parsed AST has a Tuple node of exactly one element:
\* `( )` gives Tuple([]), `( e )` gives e itself, and `( e1 , ... , en )`
\* with n >= 2 gives Tuple([e1..en]) in source order.
C15_NoOneTuple ==
    (pc = "parsed" /\ FirstParse) =>
        /\ result.ok =>
                \A n \in Nodes(result.ast) : n.t = "Tuple" => Len(n.items) # 1
        /\ WrittenInParens => ReturnedValX(written)

C15_Witness ==
    /\ pc = "parsed"
    /\ FirstParse
    /\ WrittenInParens
    /\ result.ok
    /\ written = Tuple(<<Id(<<"a">>), Tuple(<<Literal("Integer", <<"1">>),
                                               Id(<<"a">>)>>)>>)
\* The tokens are `val x =` and an operator chain  a op b op c ...
WrittenAsChain ==
    written # NoAst /\ ptokens[Len(ValX) + 1].ty.k = "Id"

\* The tokens are `val x =` and the chain of `n` operands with operators ops.
IsChain(n, ops) == ptokens = ValX \o ChainTokens(n, ops)

\* The expression of the one declaration parse returned.
ReturnedExp == result.ast.decls[1].exp

Comparisons == {"Lt", "Lte", "Gt", "Gte", "Eq", "Neq"}

IsComparison(e) == e.t = "BinOp" /\ e.op \in Comparisons

\* C16: without parentheses, application binds tighter than `*` and `/`,
\* these tighter than `+` and `-`, these tighter than the comparisons: every
\* operator chain parses to its grouping by level; `a + b * c` gives
\* BinOp(a, Add, BinOp(b, Mul, c)), `a b * c` gives BinOp(App(a, b), Mul, c),
\* and `a <= b + c` gives a comparison whose right operand is
\* BinOp(b, Add, c).
C16_Precedence ==
    (pc = "parsed" /\ FirstParse) =>
        /\ WrittenAsChain => ReturnedValX(written)
        /\ IsChain(3, <<T("Plus"), T("Multiply")>>) =>
                ReturnedValX(BinOp(Operand(1), "Add",
                                   BinOp(Operand(2), "Mul", Operand(3))))
        /\ IsChain(3, <<Juxtaposition, T("Multiply")>>) =>
                ReturnedValX(BinOp(App(Operand(1), Operand(2)), "Mul", Operand(3)))
        /\ IsChain(3, <<T("Less"), T("Plus")>>) =>
                /\ result.ok
                /\ IsComparison(ReturnedExp)
                /\ ReturnedExp.left = Operand(1)
                /\ ReturnedExp.right = BinOp(Operand(2), "Add", Operand(3))

C16_Witness ==
    /\ pc = "parsed"
    /\ FirstParse
    /\ IsChain(3, <<T("Plus"), T("Multiply")>>)
    /\ result.ok
    /\ ReturnedExp.right = BinOp(Operand(2), "Mul", Operand(3))
\* The functions that parse something, and the loops that start with their
\* condition; decls_loop and match_arm parse before they test anything.
ParsingFunctions ==
    {"parse_type", "parse_type_prefix", "parse_atom", "parse_app_expr",
     "parse_mul_expr", "parse_add_expr", "parse_comp_expr", "parse_match",
     "parse_expr", "parse_decl", "parse_decls", "parse_pattern", "match_arm",
     "decls_loop"}
GuardedLoops ==
    {"comma_exprs", "app_loop", "mul_loop", "add_loop", "comp_loop", "match_loop"}

\* From every position, a parsing function that succeeds has consumed a
\* token, a loop that has consumed none has made no turn, and none moves the
\* cursor back or past the end.
EveryTurnConsumes ==
    \A p \in 0..Len(ptokens) :
        /\ \A f \in ParsingFunctions :
            LET r == call(f, ptokens, p, <<>>) IN
                /\ p <= r.pos /\ r.pos <= Len(ptokens)
                /\ r.ok => p < r.pos
        /\ \A f \in GuardedLoops :
            LET r == call(f, ptokens, p, <<>>) IN
                /\ p <= r.pos /\ r.pos <= Len(ptokens)
                /\ (r.ok /\ r.pos = p) => r.v = <<>>

\* parse has returned an AST and no error, or an error and no AST.
OneOutcome ==
    \/ /\ result.ok
       /\ DOMAIN result = {"ok", "ast"}
       /\ result.ast = Program(decls)
    \/ /\ ~result.ok
       /\ DOMAIN result = {"ok", "err"}
       /\ result.err.kind \in {"UnexpectedToken", "UnexpectedEOF",
                               "InvalidPattern", "InvalidExpression",
                               "InvalidDeclaration"}

C17_Inv ==
    /\ pc \in {"scan", "panic", "lexed", "parsing", "parsed"}
    /\ pos <= Len(ptokens)
    /\ (pc = "parsing" /\ FirstParse) => EveryTurnConsumes
    /\ pc = "parsed" => OneOutcome
    /\ pc = "panic" => ptokens = <<>>

\* C17: on every token sequence parse ends with exactly one of an AST and a
\* ParseError, never a panic: every turn of its loop consumes a token, as
\* does every turn of every loop below it, so at most Len(ptokens) turns are
\* made, and the turn that meets no token or an error returns.
C17_Terminates ==
    /\ []C17_Inv
    /\ [][(pc = "parsing" /\ pc' = "parsing") =>
            (pos < pos' /\ pos' <= Len(ptokens))]_vars
    /\ [][(pc = "parsing" /\ pc' # "parsing") =>
            (pc' = "parsed" /\ (result'.ok <=> peek(ptokens, pos) = NoToken))]_vars

C17_Witness ==
    /\ pc = "parsed"
    /\ FirstParse
    /\ source = Encode(SrcTwoDecls)
    /\ result.ok
    /\ Len(decls) = 2
    /\ pos = Len(ptokens)
\* C18: the tokens of a well-formed program followed by exactly one EOF token
\* are accepted: parse returns the program of the tokens before the EOF.
C18_TrailingEOF ==
    (pc = "parsed" /\ FirstParse /\ ptokens # <<>>
        /\ Last(ptokens).ty = T("EOF")
        /\ \A i \in 1..(Len(ptokens) - 1) : ptokens[i].ty # T("EOF")) =>
        LET body == SubSeq(ptokens, 1, Len(ptokens) - 1)
            ds == parse_decls(body, 0)
        IN  (ds.ok /\ ds.pos = Len(body)) =>
                result = [ok |-> TRUE, ast |-> Program(ds.v)]
\* The levels of the operators of the chain the tokens are.
ChainLevels ==
    { Level(ptokens[i].ty) :
        i \in { j \in (Len(ValX) + 1)..Len(ptokens) : ptokens[j].ty.k # "Id" } }
    \cup { Level(Juxtaposition) :
        i \in { j \in (Len(ValX) + 1)..(Len(ptokens) - 1) :
                    ptokens[j].ty.k = "Id" /\ ptokens[j + 1].ty.k = "Id" } }

\* e is built to the left: the right operand of every operator on its left
\* spine is a single operand.
RECURSIVE LeftNested(_)
LeftNested(e) ==
    CASE e.t = "BinOp" -> e.right.t = "Id" /\ LeftNested(e.left)
      [] e.t = "App" -> e.arg.t = "Id" /\ LeftNested(e.func)
      [] OTHER -> e.t = "Id"

\* C19: every binary-operator level and application associate to the left:
\* a chain of operators of one level parses to a tree built to the left;
\* `a - b - c` gives BinOp(BinOp(a, Sub, b), Sub, c), `a / b / c` gives
\* BinOp(BinOp(a, Div, b), Div, c), `a < b < c` gives a comparison whose left
\* operand is the comparison of a and b, and `a b c` gives App(App(a, b), c).
C19_LeftAssociative ==
    (pc = "parsed" /\ FirstParse) =>
        /\ (WrittenAsChain /\ Cardinality(ChainLevels) <= 1) =>
                (result.ok /\ LeftNested(ReturnedExp))
        /\ IsChain(3, <<T("Minus"), T("Minus")>>) =>
                ReturnedValX(BinOp(BinOp(Operand(1), "Sub", Operand(2)), "Sub",
                                   Operand(3)))
        /\ IsChain(3, <<T("Divide"), T("Divide")>>) =>
                ReturnedValX(BinOp(BinOp(Operand(1), "Div", Operand(2)), "Div",
                                   Operand(3)))
        /\ IsChain(3, <<T("StrictLess"), T("StrictLess")>>) =>
                /\ result.ok
                /\ IsComparison(ReturnedExp)
                /\ IsComparison(ReturnedExp.left)
                /\ ReturnedExp.left.left = Operand(1)
                /\ ReturnedExp.left.right = Operand(2)
                /\ ReturnedExp.right = Operand(3)
        /\ IsChain(3, <<Juxtaposition, Juxtaposition>>) =>
                ReturnedValX(App(App(Operand(1), Operand(2)), Operand(3)))

C19_Witness ==
    /\ pc = "parsed"
    /\ FirstParse
    /\ IsChain(3, <<Juxtaposition, Juxtaposition>>)
    /\ result.ok
    /\ ReturnedExp.func = App(Operand(1), Operand(2))

\* C20: the parser gives `<>` the tag of `=`: a comparison written with the
\* CompNotEqual token is BinOp{op = Eq}, as is one written with CompEqual,
\* and no AST parse returns has a BinOp of tag Neq.
C20_NotEqualIsEq ==
    (pc = "parsed" /\ FirstParse) =>
        /\ result.ok =>
                \A n \in Nodes(result.ast) : n.t = "BinOp" => n.op # "Neq"
        /\ IsChain(2, <<T("CompNotEqual")>>) =>
                ReturnedValX(BinOp(Operand(1), "Eq", Operand(2)))
        /\ IsChain(2, <<T("CompEqual")>>) =>
                ReturnedValX(BinOp(Operand(1), "Eq", Operand(2)))

C20_Witness ==
    /\ pc = "parsed"
    /\ FirstParse
    /\ IsChain(2, <<T("CompNotEqual")>>)
    /\ result.ok
    /\ ReturnedExp.op = "Eq"

\* The operator tag of an ordering comparison, by its lexeme.
OrderingTag(op) ==
    CASE op = <<"<">> -> "Lt"
      [] op = <<"<", "=">> -> "Lte"
      [] op = <<">">> -> "Gt"
      [] op = <<">", "=">> -> "Gte"

\* C21: each ordering comparison is parsed to its own tag: `a < b` gives
\* BinOp Lt, `a <= b` Lte, `a > b` Gt and `a >= b` Gte.
C21_OrderingTags ==
    \A op \in OrderingLexemes :
        (pc = "parsed" /\ FirstParse /\ source = Encode(SrcCompare(op))) =>
            ReturnedValX(BinOp(Id(<<"a">>), OrderingTag(op), Id(<<"b">>)))

\* parse failed where the tokens ended: the function that raised the error
\* was entered with no token left, so the error's position is Len(ptokens).
FailedAtEnd == ~result.ok /\ result.err.pos = Len(ptokens)

\* C22: a parse that fails because the token sequence ended where a token was
\* required returns a ParseError of kind UnexpectedEOF; UnexpectedToken is
\* the kind only of an error at a token that is present.
C22_EOFKind ==
    (pc = "parsed" /\ FirstParse /\ ~result.ok) =>
        /\ FailedAtEnd => result.err.kind = "UnexpectedEOF"
        /\ result.err.kind = "UnexpectedToken" => result.err.pos < Len(ptokens)

\* The token types expect is called with.
ExpectedKinds ==
    {T("Then"), T("Else"), T("In"), T("End"), T("Equal"), T("FatArrow"),
     T("Comma"), T("RightParen"), T("RightBracket")}

\* C23: a parsing function that fails discards its advance: when expect or a
\* parse_* function returns an error, the cursor is where it was when the
\* function was entered; so it is for parse itself, failing in its first
\* call of parse_decls.
C23_ErrorRestoresPos ==
    /\ (pc = "parsed" /\ FirstParse /\ ~result.ok) =>
            \A p \in 0..Len(ptokens) :
                /\ \A f \in ParsingFunctions \cup GuardedLoops :
                    LET r == call(f, ptokens, p, <<>>) IN ~r.ok => r.pos = p
                /\ \A k \in ExpectedKinds :
                    LET r == expect(ptokens, p, k) IN ~r.ok => r.pos = p
    /\ (pc = "parsed" /\ FirstParse /\ ~result.ok /\ decls = <<>>) => pos = 0

\* The messages of the errors raised where the tokens have ended.
EndMessages ==
    {"Expected '{:?}', got EOF", "Expected an atom, got EOF",
     "Expected a type, got EOF", "Unexpected EOF", "TODO",
     "Expected end of input after decl"}

\* The messages of the errors raised for what follows `fun` or a single
\* quote: the cursor stands at the token that is not the identifier.
AfterKeywordMessages ==
    {"Expected identifier after 'fun'",
     "Expected identifier for type name, recieved: {token}",
     "Expected identifier after single quote in pattern"}

\* C24: every ParseError parse returns carries the index of the token at
\* which the mismatch was detected: the index of the token the error
\* reports, Len(ptokens) when the tokens had ended, and the index of the
\* token that stands where an identifier had to follow `fun` or a single
\* quote.
C24_ErrorPosition ==
    (pc = "parsed" /\ FirstParse /\ ~result.ok) =>
        /\ result.err.pos \in 0..Len(ptokens)
        /\ result.err.got # NoToken =>
                /\ result.err.pos < Len(ptokens)
                /\ ptokens[result.err.pos + 1].ty = result.err.got
        /\ result.err.msg \in EndMessages => result.err.pos = Len(ptokens)
        /\ result.err.msg \in AfterKeywordMessages => result.err.pos = pos

\* The indices (from 0) of the Error tokens.
ErrorTokens == { i \in 0..(Len(ptokens) - 1) : ptokens[i + 1].ty = T("Error") }

RejectsErrorToken(r, i) ==
    /\ ~r.ok
    /\ r.err.kind = "UnexpectedToken"
    /\ r.err.pos = i

\* C25: parse never succeeds on tokens that contain an Error token: it
\* returns a ParseError of kind UnexpectedToken, raised at an Error token or
\* before the first; and every parsing function entered at an Error token,
\* as an atom, a pattern, a type, an expression or a declaration, and expect
\* for any token type, returns UnexpectedToken for that token.
C25_ErrorTokenRejected ==
    (pc = "parsed" /\ FirstParse /\ ErrorTokens # {}) =>
        /\ ~result.ok
        /\ result.err.kind = "UnexpectedToken"
        /\ \E i \in ErrorTokens : result.err.pos <= i
        /\ \A i \in ErrorTokens :
            /\ \A f \in ParsingFunctions : RejectsErrorToken(call(f, ptokens, i, <<>>), i)
            /\ \A k \in ExpectedKinds : RejectsErrorToken(expect(ptokens, i, k), i)

C25_Witness ==
    /\ pc = "parsed"
    /\ FirstParse
    /\ ptokens = [SeedIf EXCEPT ![6] = TK("Error")]
    /\ ~result.ok
    /\ result.err.pos = 5
    /\ pos = 6

\* The functions with an error of their own to raise.
Raisers ==
    {"parse_atom", "parse_pattern", "parse_type_prefix", "parse_decl",
     "parse_expr"}

\* The failure r is the failure of the function that raised its error,
\* entered at the error's position: the same error, and the cursor where
\* that function left it.
AsRaised(r) ==
    \/ \E g \in Raisers :
        LET o == call(g, ptokens, r.err.pos, <<>>) IN
            ~o.ok /\ o.err = r.err /\ o.pos = r.pos
    \/ \E k \in ExpectedKinds :
        LET o == expect(ptokens, r.err.pos, k) IN
            ~o.ok /\ o.err = r.err /\ o.pos = r.pos

C26_Inv ==
    (pc = "parsed" /\ FirstParse /\ ~result.ok) =>
        /\ AsRaised([ok |-> FALSE, err |-> result.err, pos |-> pos])
        /\ \A p \in 0..Len(ptokens) :
            \A f \in ParsingFunctions \cup GuardedLoops :
                LET r == call(f, ptokens, p, <<>>) IN ~r.ok => AsRaised(r)

\* C26: the first error wins: the error a parsing function returns is the
\* one raised first below it, with its kind, message and position
\* unchanged and no token consumed after it, and parse returns the error
\* of parse_decls as it is, keeping the cursor and adding no declaration.
C26_FirstErrorWins ==
    /\ []C26_Inv
    /\ [][(pc = "parsing" /\ peek(ptokens, pos) # NoToken
                /\ ~parse_decls(ptokens, pos).ok) =>
            /\ pc' = "parsed"
            /\ result' = [ok |-> FALSE, err |-> parse_decls(ptokens, pos).err]
            /\ pos' = parse_decls(ptokens, pos).pos
            /\ decls' = decls]_vars

C26_Witness ==
    /\ pc = "parsed"
    /\ FirstParse
    /\ ptokens = [SeedLet EXCEPT ![15] = TK("Error")]
    /\ ~result.ok
    /\ result.err.pos = 14
    /\ result.err.got = T("Error")
    /\ pos = 15

\* The declarations of the token sequence from position p on, each with the
\* positions where it starts and ends, a ';' after one skipped.
RECURSIVE TopLevel(_, _)
TopLevel(toks, p) ==
    IF peek(toks, p) = NoToken THEN <<>> ELSE
    LET dec == parse_decl(toks, p) IN
    IF ~dec.ok THEN <<>> ELSE
    <<[decl |-> dec.v, from |-> p, to |-> dec.pos]>>
        \o TopLevel(toks, IF peek(toks, dec.pos).k = "SemiColon"
                          THEN consume(toks, dec.pos) ELSE dec.pos)

\* C27: a Program is a ';'-separated run of declarations: between two
\* consecutive declarations of an accepted Program stands a ';' token, the
\* declarations are in the Program in the order of the tokens, and a ';' with
\* no declaration after it is a parse error.
C27_SemiColonSeparated ==
    (pc = "parsed" /\ FirstParse) =>
        /\ result.ok =>
            LET tl == TopLevel(ptokens, 0) IN
            /\ result.ast.decls = [i \in 1..Len(tl) |-> tl[i].decl]
            /\ \A i \in 1..(Len(tl) - 1) :
                /\ peek(ptokens, tl[i].to).k = "SemiColon"
                /\ tl[i + 1].from = tl[i].to + 1
        /\ (\E i \in 1..Len(ptokens) :
                /\ ptokens[i].ty = T("SemiColon")
                /\ ~parse_decl(ptokens, i).ok) => ~result.ok

\* int -> int -> int   and   int * int -> int
IntArrowIntArrowInt ==
    <<TK("TypeInt"), TK("Arrow"), TK("TypeInt"), TK("Arrow"), TK("TypeInt")>>
IntTimesIntArrowInt ==
    <<TK("TypeInt"), TK("Multiply"), TK("TypeInt"), TK("Arrow"), TK("TypeInt")>>

ReturnedTypedValX(ty) ==
    result = [ok |-> TRUE,
              ast |-> Program(<<ValDecl(PatId(<<"x">>), ty,
                                        Literal("Integer", <<"1">>))>>)]

\* C28: type suffixes are right-recursive: a base type followed by `->` T
\* is Arrow(base, T) and by `*` T is Product(base, T), T being the whole of
\* the rest of the type, and a base type with no suffix is returned alone;
\* `int -> int -> int` is Arrow(Int, Arrow(Int, Int)) and `int * int -> int`
\* is Product(Int, Arrow(Int, Int)).
C28_TypeSuffixes ==
    (pc = "parsed" /\ FirstParse) =>
        /\ \A c \in TypeCases :
            ptokens = TypedValX(c.toks) =>
                /\ ReturnedTypedValX(c.ast)
                /\ parse_type(c.toks, 0) = Ok(c.ast, Len(c.toks))
        /\ ptokens = TypedValX(IntArrowIntArrowInt) =>
            ReturnedTypedValX(TyArrow(TyInt, TyArrow(TyInt, TyInt)))
        /\ ptokens = TypedValX(IntTimesIntArrowInt) =>
            ReturnedTypedValX(TyProduct(TyInt, TyArrow(TyInt, TyInt)))

C28_Witness ==
    /\ pc = "parsed"
    /\ FirstParse
    /\ ptokens = TypedValX(IntTimesIntArrowInt)
    /\ ReturnedTypedValX(TyProduct(TyInt, TyArrow(TyInt, TyInt)))
    /\ pos = Len(ptokens)

\* What consume and peek do to the cursor at every position of the tokens:
\* consume moves it by one where a token is left and not at the end, peek
\* reads the token under it, and expect moves it as one consume does.
OneTokenAtATime ==
    \A p \in 0..Len(ptokens) :
        /\ consume(ptokens, p) = (IF p < Len(ptokens) THEN p + 1 ELSE p)
        /\ peek(ptokens, p) = (IF p < Len(ptokens) THEN ptokens[p + 1].ty ELSE NoToken)
        /\ \A k \in ExpectedKinds :
            LET e == expect(ptokens, p, k) IN
                /\ e.pos = consume(ptokens, p)
                /\ e.ok <=> peek(ptokens, p) = k

C29_Inv ==
    /\ pos \in 0..Len(ptokens)
    /\ (pc = "parsing" /\ FirstParse) => OneTokenAtATime

\* C29: the cursor stays within the tokens, 0 <= pos <= Len(ptokens), never
\* moves back, moves by consume alone and then by one token, is left alone
\* by peek, and the token sequence the parser was made with is never changed.
C29_Cursor ==
    /\ []C29_Inv
    /\ [][pos <= pos']_vars
    /\ [][(pc \in {"parsing", "parsed"}) => (ptokens' = ptokens)]_vars
    /\ [][(pos' # pos) =>
            (/\ pc = "parsing"
             /\ \A q \in pos..(pos' - 1) : consume(ptokens, q) = q + 1)]_vars

C29_Witness ==
    /\ pc = "parsed"
    /\ ~FirstParse
    /\ ptokens = SeedFun
    /\ pos = Len(ptokens)
    /\ result.ok

\* C30: whenever parse returns an AST the whole token sequence has been
\* consumed, pos = Len(ptokens): no token is under the cursor, and the
\* declarations of the Program, the first starting at the first token and
\* the last ending at the last, leave no token unparsed.
C30_AllConsumed ==
    (pc = "parsed" /\ result.ok) =>
        /\ pos = Len(ptokens)
        /\ peek(ptokens, pos) = NoToken
        /\ FirstParse =>
            LET tl == TopLevel(ptokens, 0) IN
            /\ Len(tl) = Len(result.ast.decls)
            /\ tl # <<>> => (tl[1].from = 0 /\ tl[Len(tl)].to = Len(ptokens))

C30_Witness ==
    /\ pc = "parsed"
    /\ FirstParse
    /\ ptokens = SeedDecls
    /\ result.ok
    /\ Len(result.ast.decls) = 3
    /\ pos = 15

=============================================================================
